---- MODULE Spec2Model ----
(***************************************************************************)
(* The video-acquisition-and-digest pipeline of youtube-digest            *)
(* (app/tasks.py with the services it calls), as a state machine over the *)
(* committed rows of processed_videos and digest_history, the broker      *)
(* queue and the running task executions.  A task execution owns a        *)
(* SQLAlchemy session: what it has loaded is kept with the execution, a    *)
(* commit writes only the attributes that differ from the loaded ones.    *)
(***************************************************************************)
EXTENDS Bags, FiniteSets, Integers, Sequences, TLC

\* ------------------------------------------------------------- bounds
NumVideos == 2          \* video ids YouTube can return
NumWorkers == 2         \* concurrent process_video executions
NumDigestWorkers == 2   \* concurrent generate_and_send_digest executions
MaxDigests == 2         \* ids the digest_history sequence hands out
MaxDigestTasks == 2     \* digest tasks launched by beat, the dashboard or a scan
MaxRedeliveries == 1    \* messages the at-least-once broker delivers twice
MaxGenVideos == 2       \* videos in a list handed to DigestGenerator.generate
MaxGroupItems == 3      \* items in a list handed to _group_by_category
MaxTranscriptChars == 20   \* characters of a transcript handed to a chunker
MaxMarks == 2           \* full stops and blanks in such a transcript

\* ------------------------------------------------- program constants
digest_video_threshold == 2   \* settings.digest_video_threshold (configured)
MAX_VIDEOS_PER_DIGEST == 1    \* digest_generator.MAX_VIDEOS_PER_DIGEST (scaled)
MarkCap == 1                  \* videos[:50] in generate_and_send_digest (scaled)
PV_MAX_RETRIES == 3           \* process_video: self.retry(max_retries=3)
DIGEST_MAX_RETRIES == 2       \* generate_and_send_digest: self.retry(max_retries=2)
GEMINI_MAX_RETRIES == 3       \* summarization_service.MAX_RETRIES
GEMINI_RETRY_DELAYS == <<1, 2, 4>>   \* summarization_service.RETRY_DELAYS
EMAIL_MAX_RETRIES == 3        \* email_service.MAX_RETRIES
EMAIL_RETRY_DELAYS == <<2, 5, 10>>   \* email_service.RETRY_DELAYS
MAX_SUBJECT_LENGTH == 998     \* email_service.MAX_SUBJECT_LENGTH
MAX_EMAIL_SIZE_BYTES == 10 * 1024 * 1024
MAX_TRANSCRIPT_CHARS == 13    \* summarization_service.MAX_TRANSCRIPT_CHARS (scaled)
CHUNK_SIZE == 11              \* summarization_service.CHUNK_SIZE (scaled)
CHUNK_OVERLAP == 2            \* summarization_service.CHUNK_OVERLAP (scaled)
MAX_TRANSCRIPT_LENGTH == 11   \* transcript_service.MAX_TRANSCRIPT_LENGTH (scaled)
DEFAULT_OVERLAP == 2          \* chunk_transcript(..., overlap=500) (scaled)

VideoIds == 1..NumVideos
NULL == "NULL"
NoDigest == 0
Categories == {"Claude Code"}
CoreMessages == {"", "msg"}
TranscriptSources == {"youtube"}
NoSummary == [null |-> TRUE]

VARIABLES
    videos,     \* committed processed_videos rows, by video_id
    digests,    \* committed digest_history rows, by id
    digestSeq,  \* last id handed out by the digest_history sequence
    queue,      \* broker: bag of task messages
    pv,         \* bag of the running process_video executions
    scan,       \* the check_for_new_videos execution
    dg,         \* bag of the running generate_and_send_digest executions
    launched,   \* digest tasks launched so far
    redelivered,\* messages delivered a second time so far
    ret,        \* what the last step returned to the scheduler, if it returned
    call,       \* the service call in progress: its inputs, its position, its result
    channels    \* committed channels rows, by channel_id

vars == <<videos, digests, digestSeq, queue, pv, scan, dg, launched, redelivered,
          ret, call, channels>>

\* ---------------------------------------------------------------- rows

\* published_at of a video: fixed by YouTube, distinct per id.
PublishedAt(v) == v

\* ProcessedVideo(..., processing_status="pending") with the column defaults.
NewVideoRow ==
    [processing_status |-> "pending",
     transcript_source |-> NULL,
     category |-> "Sonstige",
     summary |-> NoSummary,
     error_message |-> NULL,
     retry_count |-> 0,
     last_retry_at |-> NULL,
     included_in_digest_id |-> NoDigest]

Known == DOMAIN videos

\* The per-video part of a session: the attributes as the session loaded them.
Loaded(row) ==
    [processing_status |-> row.processing_status,
     error_message |-> row.error_message,
     retry_count |-> row.retry_count]

\* Variant: processing is not committed before the external calls.
MarkProcessing_Deferred(row) == row

\* video.processing_status = "processing"; db.commit()
MarkProcessing(row) == [row EXCEPT !.processing_status = "processing"]

\* The commit of the success branch.  transcript, category and summary are
\* written; processing_status and error_message are part of the UPDATE only
\* when the new value differs from the loaded one.
CommitCompleted(row, loaded, source, category, core) ==
    [row EXCEPT
        !.transcript_source = source,
        !.category = category,
        !.summary = [core_message |-> core],
        !.processing_status =
            IF loaded.processing_status = "completed" THEN @ ELSE "completed",
        !.error_message = IF loaded.error_message = NULL THEN @ ELSE NULL]

\* Variant: the except branch without the retry_count increment.
CommitFailed_NoCount(row) ==
    [row EXCEPT
        !.processing_status = "failed",
        !.error_message = "err",
        !.last_retry_at = "stamped"]

\* The commit of the except branch when get_transcript raised: the instance is
\* still expired, so every attribute set is written and retry_count is read
\* from the row at this moment.
CommitFailedFresh(row) ==
    [row EXCEPT
        !.processing_status = "failed",
        !.error_message = "err",
        !.retry_count = row.retry_count + 1,
        !.last_retry_at = "stamped"]

\* The commit of the except branch when summarize_video raised: the instance
\* was loaded after the transcript fetch; the transcript set on it is written
\* too, and retry_count is the loaded one plus one.
CommitFailedLoaded(row, loaded, source) ==
    [row EXCEPT
        !.transcript_source = source,
        !.processing_status =
            IF loaded.processing_status = "failed" THEN @ ELSE "failed",
        !.error_message = IF loaded.error_message = "err" THEN @ ELSE "err",
        !.retry_count = loaded.retry_count + 1,
        !.last_retry_at = "stamped"]

\* Variant: the query without the back-reference filter.
Eligible_AnyCompleted ==
    {v \in Known : videos[v].processing_status = "completed"}

\* status completed and no back-reference: the filter of both digest queries.
Eligible == {v \in Known : /\ videos[v].processing_status = "completed"
                           /\ videos[v].included_in_digest_id = NoDigest}

\* -------------------------------------------------------------- broker

\* countdown: the delay the broker holds the message for, 0 for .delay().
PVMsg(v, r) == [task |-> "process_video", video_id |-> v, retries |-> r,
                trigger_reason |-> NULL, countdown |-> 0]
DigestMsg(reason, r) == [task |-> "generate_and_send_digest", video_id |-> 0,
                         retries |-> r, trigger_reason |-> reason,
                         countdown |-> 0]

Enqueue(q, m) == q (+) SetToBag({m})
EnqueueAll(q, ms) == q (+) SetToBag(ms)
Dequeue(q, m) == q (-) SetToBag({m})
\* One execution of a bag of executions moves on, or ends.
Step(b, e, f) == (b (-) SetToBag({e})) (+) SetToBag({f})
Returned(task, status) == [task |-> task, status |-> status]
\* The result dict of generate_and_send_digest: status and video_count.
DigestReturned(status, n) ==
    [task |-> "generate_and_send_digest", status |-> status, video_count |-> n]

ScanIdle == [pc |-> "idle"]
NoReturn == [task |-> NULL, status |-> NULL]
\* No service call is followed step by step: the tasks take its outcome whole.
NoCall == [op |-> "none"]

Init ==
    /\ channels = <<>>
    /\ videos = <<>>
    /\ digests = <<>>
    /\ digestSeq = 0
    /\ queue = EmptyBag
    /\ pv = EmptyBag
    /\ scan = ScanIdle
    /\ dg = EmptyBag
    /\ launched = 0
    /\ redelivered = 0
    /\ ret = NoReturn
    /\ call = NoCall

\* ------------------------------------------------------- process_video

\* The broker hands message m to a worker: the message is acknowledged when
\* it is received (acks_late is not set) and leaves the queue.
Deliver(m) == queue' = Dequeue(queue, m)

\* A broker that guarantees at-least-once execution (a worker lost with
\* task_reject_on_worker_lost, a visibility timeout) delivers a message that
\* is in flight a second time.
Redeliver(m) ==
    /\ BagIn(m, queue)
    /\ redelivered < MaxRedeliveries
    /\ redelivered' = redelivered + 1
    /\ queue' = Enqueue(queue, m)
    /\ ret' = NoReturn
    /\ UNCHANGED <<channels, call, videos, digests, digestSeq, pv, scan, dg, launched>>

PV_CanStart(m) ==
    /\ BagCardinality(pv) < NumWorkers
    /\ BagIn(m, queue) /\ m.task = "process_video"

\* process_video up to its first commit: the row is read, a missing row is an
\* error result, a completed row is skipped, any other row is committed as
\* processing before the transcript fetch starts.
PV_StartNotFound(m) ==
    /\ PV_CanStart(m)
    /\ m.video_id \notin Known
    /\ Deliver(m)
    /\ ret' = Returned("process_video", "error")
    /\ UNCHANGED <<channels, call, videos, digests, digestSeq, pv, scan, dg, launched, redelivered>>

\* Variant: process_video without the completed check.
PV_Start_NoCompletedCheck(m) ==
    /\ PV_CanStart(m)
    /\ m.video_id \in Known
    /\ videos[m.video_id].processing_status = "completed"
    /\ Deliver(m)
    /\ videos' = [videos EXCEPT ![m.video_id] = MarkProcessing(@)]
    /\ pv' = pv (+) SetToBag({[pc |-> "fetch", video_id |-> m.video_id,
                               retries |-> m.retries]})
    /\ ret' = NoReturn
    /\ UNCHANGED <<channels, call, digests, digestSeq, scan, dg, launched, redelivered>>

PV_StartSkipped(m) ==
    /\ PV_CanStart(m)
    /\ m.video_id \in Known
    /\ videos[m.video_id].processing_status = "completed"
    /\ Deliver(m)
    /\ ret' = Returned("process_video", "skipped")
    /\ UNCHANGED <<channels, call, videos, digests, digestSeq, pv, scan, dg, launched, redelivered>>

PV_StartProcessing(m) ==
    /\ PV_CanStart(m)
    /\ m.video_id \in Known
    /\ videos[m.video_id].processing_status # "completed"
    /\ Deliver(m)
    /\ videos' = [videos EXCEPT ![m.video_id] = MarkProcessing(@)]
    /\ pv' = pv (+) SetToBag({[pc |-> "fetch", video_id |-> m.video_id,
                               retries |-> m.retries]})
    /\ ret' = NoReturn
    /\ UNCHANGED <<channels, call, digests, digestSeq, scan, dg, launched, redelivered>>

\* get_transcript returned: transcript and source are set on the instance and
\* video.channel_id loads the expired instance again.
PV_TranscriptOk(e, source) ==
    /\ BagIn(e, pv) /\ e.pc = "fetch"
    /\ pv' = Step(pv, e, [pc |-> "summarize", video_id |-> e.video_id,
                          retries |-> e.retries, source |-> source,
                          loaded |-> Loaded(videos[e.video_id])])
    /\ ret' = NoReturn
    /\ UNCHANGED <<channels, call, videos, digests, digestSeq, queue, scan, dg, launched,
                   redelivered>>

\* Variant: every retry after one minute.
PVCountdown_Fixed(retries) == 60

\* countdown = 60 * (2 ** self.request.retries)
PVCountdown(retries) == 60 * 2^retries

\* The message self.retry sends for an execution with this retries count.
PVRetryMsg(v, retries) ==
    [PVMsg(v, retries + 1) EXCEPT !.countdown = PVCountdown(retries)]

\* except Exception (outer): raise self.retry(exc=e, countdown=60 * 2 ** retries,
\* max_retries=3): a new message while retries remain, else the task fails.
PV_Retry(e) ==
    IF e.retries < PV_MAX_RETRIES
    THEN /\ queue' = Enqueue(queue, PVRetryMsg(e.video_id, e.retries))
         /\ ret' = Returned("process_video", "retry")
    ELSE /\ ret' = Returned("process_video", "failure")
         /\ UNCHANGED queue

PV_TranscriptFail(e) ==
    /\ BagIn(e, pv) /\ e.pc = "fetch"
    /\ videos' = [videos EXCEPT ![e.video_id] = CommitFailedFresh(@)]
    /\ PV_Retry(e)
    /\ pv' = pv (-) SetToBag({e})
    /\ UNCHANGED <<channels, call, digests, digestSeq, scan, dg, launched, redelivered>>

PV_SummaryOk(e, category, core) ==
    /\ BagIn(e, pv) /\ e.pc = "summarize"
    /\ videos' = [videos EXCEPT ![e.video_id] =
                    CommitCompleted(@, e.loaded, e.source, category, core)]
    /\ ret' = Returned("process_video", "completed")
    /\ pv' = pv (-) SetToBag({e})
    /\ UNCHANGED <<channels, call, digests, digestSeq, queue, scan, dg, launched, redelivered>>

PV_SummaryFail(e) ==
    /\ BagIn(e, pv) /\ e.pc = "summarize"
    /\ videos' = [videos EXCEPT ![e.video_id] =
                    CommitFailedLoaded(@, e.loaded, e.source)]
    /\ PV_Retry(e)
    /\ pv' = pv (-) SetToBag({e})
    /\ UNCHANGED <<channels, call, digests, digestSeq, scan, dg, launched, redelivered>>

\* ------------------------------------------------ check_for_new_videos

\* Rows the scan has flushed and not yet committed: no other session sees them.
ScanUncommitted == IF scan.pc = "registered" THEN scan.new ELSE {}

\* The loop over the subscriptions: every fetched video that has no row is
\* added, flushed, and its process_video message sent at once.
Check_Register(fetched) ==
    /\ scan.pc = "idle"
    /\ LET new == fetched \ Known IN
        /\ scan' = [pc |-> "registered", new |-> new]
        /\ queue' = EnqueueAll(queue, {PVMsg(v, 0) : v \in new})
    /\ ret' = NoReturn
    /\ UNCHANGED <<channels, call, videos, digests, digestSeq, pv, dg, launched, redelivered>>

\* db.commit() at the end of the loop.
Check_Commit ==
    /\ scan.pc = "registered"
    /\ videos' = videos @@ [v \in scan.new |-> NewVideoRow]
    /\ scan' = [pc |-> "committed"]
    /\ ret' = NoReturn
    /\ UNCHANGED <<channels, call, digests, digestSeq, queue, pv, dg, launched, redelivered>>

\* Variant: the threshold compared with > .
ThresholdDue_Strict == Cardinality(Eligible) > digest_video_threshold

\* pending_digest_count >= settings.digest_video_threshold
ThresholdDue == Cardinality(Eligible) >= digest_video_threshold

\* The threshold check in its own session, then the result.
\* generate_and_send_digest.delay() carries the defaults: "scheduled".
Check_ThresholdDue ==
    /\ scan.pc = "committed"
    /\ ThresholdDue
    /\ launched < MaxDigestTasks
    /\ launched' = launched + 1
    /\ queue' = Enqueue(queue, DigestMsg("scheduled", 0))
    /\ scan' = ScanIdle
    /\ ret' = Returned("check_for_new_videos", "completed")
    /\ UNCHANGED <<channels, call, videos, digests, digestSeq, pv, dg, redelivered>>

Check_ThresholdNotDue ==
    /\ scan.pc = "committed"
    /\ ~ThresholdDue
    /\ scan' = ScanIdle
    /\ ret' = Returned("check_for_new_videos", "completed")
    /\ UNCHANGED <<channels, call, videos, digests, digestSeq, queue, pv, dg, launched, redelivered>>

\* --------------------------------------------- generate_and_send_digest

\* The ids of S, newest published first: order_by(published_at.desc()).
RECURSIVE NewestFirst(_)
NewestFirst(S) ==
    IF S = {} THEN <<>>
    ELSE LET v == CHOOSE x \in S : \A y \in S : PublishedAt(y) <= PublishedAt(x)
         IN <<v>> \o NewestFirst(S \ {v})

Prefix(seq, n) == SubSeq(seq, 1, IF Len(seq) < n THEN Len(seq) ELSE n)
Range(seq) == {seq[i] : i \in 1..Len(seq)}

\* DigestGenerator._prepare_video_item: no item without a summary or with an
\* empty core_message.
HasItem(row) == row.summary # NoSummary /\ row.summary.core_message # ""

\* DigestGenerator.generate on the query's list: the cap, then the items.
\* The result is the ids rendered in the email.
RenderedWithin(list, cap) ==
    LET capped == IF Len(list) > cap THEN Prefix(list, cap) ELSE list
    IN {v \in Range(capped) : HasItem(videos[v])}

Rendered(list) == RenderedWithin(list, MAX_VIDEOS_PER_DIGEST)

\* Variant: the successful send marks the whole list.
Marked_WholeList(list) == Range(list)

\* for video in videos[:50]: the videos the successful send marks.
MarkedWithin(list, cap) == Range(Prefix(list, cap))

Marked(list) == MarkedWithin(list, MarkCap)

\* Celery beat ("scheduled", the task's default) or POST /api/trigger-digest
\* ("manual") puts a digest task on the queue.
Launch(reason) ==
    /\ launched < MaxDigestTasks
    /\ launched' = launched + 1
    /\ queue' = Enqueue(queue, DigestMsg(reason, 0))
    /\ ret' = NoReturn
    /\ UNCHANGED <<channels, call, videos, digests, digestSeq, pv, scan, dg, redelivered>>

\* except Exception: raise self.retry(exc=e, countdown=300, max_retries=2)
DG_Retry(q, reason, retries) ==
    IF retries < DIGEST_MAX_RETRIES
    THEN /\ queue' = Enqueue(q, [DigestMsg(reason, retries + 1)
                                    EXCEPT !.countdown = 300])
         /\ ret' = Returned("generate_and_send_digest", "retry")
    ELSE /\ ret' = Returned("generate_and_send_digest", "failure")
         /\ queue' = q

DG_CanStart(m) ==
    /\ BagCardinality(dg) < NumDigestWorkers
    /\ BagIn(m, queue) /\ m.task = "generate_and_send_digest"
    /\ digestSeq + BagCardinality(dg) < MaxDigests

DG_Processing(reason, retries, todo) ==
    [pc |-> "process", trigger_reason |-> reason, retries |-> retries,
     todo |-> todo]

\* Phase 1, _sync_channels_and_fetch_videos: every fetched survivor of the
\* duration and livestream checks that has no row gets a pending row; one
\* commit at the end.
DG_Sync(m, fetched) ==
    /\ DG_CanStart(m)
    /\ (fetched \ Known) \cap ScanUncommitted = {}
    /\ queue' = Dequeue(queue, m)
    /\ videos' = videos @@ [v \in fetched \ Known |-> NewVideoRow]
    /\ dg' = dg (+) SetToBag({DG_Processing(m.trigger_reason, m.retries,
                                            NewestFirst(fetched \ Known))})
    /\ ret' = NoReturn
    /\ UNCHANGED <<channels, call, digests, digestSeq, pv, scan, launched, redelivered>>

\* The INSERT of a video id that a running scan has flushed fails on the
\* primary key: the exception leaves the task through self.retry.
DG_SyncConflict(m, fetched) ==
    /\ DG_CanStart(m)
    /\ (fetched \ Known) \cap ScanUncommitted # {}
    /\ DG_Retry(Dequeue(queue, m), m.trigger_reason, m.retries)
    /\ UNCHANGED <<channels, call, videos, digests, digestSeq, pv, scan, dg, launched, redelivered>>

\* Phase 2, _process_videos_sync, one loop iteration up to its first commit.
DG_ProcSkip(e) ==
    /\ BagIn(e, dg) /\ e.pc = "process" /\ e.todo # <<>>
    /\ \/ Head(e.todo) \notin Known
       \/ videos[Head(e.todo)].processing_status = "completed"
    /\ dg' = Step(dg, e, [e EXCEPT !.todo = Tail(@)])
    /\ ret' = NoReturn
    /\ UNCHANGED <<channels, call, videos, digests, digestSeq, queue, pv, scan, launched,
                   redelivered>>

DG_ProcStart(e) ==
    /\ BagIn(e, dg) /\ e.pc = "process" /\ e.todo # <<>>
    /\ Head(e.todo) \in Known
    /\ videos[Head(e.todo)].processing_status # "completed"
    /\ videos' = [videos EXCEPT ![Head(e.todo)] = MarkProcessing(@)]
    /\ dg' = Step(dg, e, [e EXCEPT !.pc = "fetch"])
    /\ ret' = NoReturn
    /\ UNCHANGED <<channels, call, digests, digestSeq, queue, pv, scan, launched, redelivered>>

\* The rows of new_video_ids were created by this execution and no
\* process_video message exists for them, so between the commit of
\* "processing" and the commit of the outcome no other session writes the
\* row: what video.title loads after the transcript fetch is the row as it is
\* at the outcome's commit.
\* The except branch of the loop logs and falls through to the next
\* iteration: nothing is raised out of _process_videos_sync.
DG_TranscriptFail(e) ==
    /\ BagIn(e, dg) /\ e.pc = "fetch"
    /\ videos' = [videos EXCEPT ![Head(e.todo)] = CommitFailedFresh(@)]
    /\ dg' = Step(dg, e, DG_Processing(e.trigger_reason, e.retries, Tail(e.todo)))
    /\ ret' = NoReturn
    /\ UNCHANGED <<channels, call, digests, digestSeq, queue, pv, scan, launched, redelivered>>

DG_SummaryOk(e, source, category, core) ==
    /\ BagIn(e, dg) /\ e.pc = "fetch"
    /\ videos' = [videos EXCEPT ![Head(e.todo)] =
                    CommitCompleted(@, Loaded(@), source, category, core)]
    /\ dg' = Step(dg, e, DG_Processing(e.trigger_reason, e.retries, Tail(e.todo)))
    /\ ret' = NoReturn
    /\ UNCHANGED <<channels, call, digests, digestSeq, queue, pv, scan, launched, redelivered>>

DG_SummaryFail(e, source) ==
    /\ BagIn(e, dg) /\ e.pc = "fetch"
    /\ videos' = [videos EXCEPT ![Head(e.todo)] =
                    CommitFailedLoaded(@, Loaded(@), source)]
    /\ dg' = Step(dg, e, DG_Processing(e.trigger_reason, e.retries, Tail(e.todo)))
    /\ ret' = NoReturn
    /\ UNCHANGED <<channels, call, digests, digestSeq, queue, pv, scan, launched, redelivered>>

\* The query for the videos not yet included in any digest.
DG_AtQuery(e) == BagIn(e, dg) /\ e.pc = "process" /\ e.todo = <<>>

\* Variant: an empty digest is recorded and reported as sent.
DG_QueryEmpty_Recorded(e) ==
    /\ DG_AtQuery(e)
    /\ Eligible = {}
    /\ digestSeq' = digestSeq + 1
    /\ digests' = digests @@ (digestSeq + 1 :>
                    [email_status |-> "sent", email_error |-> NULL,
                     trigger_reason |-> e.trigger_reason, video_count |-> 0,
                     rendered |-> {}])
    /\ dg' = dg (-) SetToBag({e})
    /\ ret' = DigestReturned("sent", 0)
    /\ UNCHANGED <<channels, call, videos, queue, pv, scan, launched, redelivered>>

\* No videos: the task returns "skipped".
DG_QueryEmpty(e) ==
    /\ DG_AtQuery(e)
    /\ Eligible = {}
    /\ dg' = dg (-) SetToBag({e})
    /\ ret' = DigestReturned("skipped", 0)
    /\ UNCHANGED <<channels, call, videos, digests, digestSeq, queue, pv, scan, launched, redelivered>>

\* generate raises DigestGenerationError("No videos with valid summaries found").
DG_QueryNoItemsOf(e, rendered) ==
    /\ DG_AtQuery(e)
    /\ Eligible # {}
    /\ rendered = {}
    /\ DG_Retry(queue, e.trigger_reason, e.retries)
    /\ dg' = dg (-) SetToBag({e})
    /\ UNCHANGED <<channels, call, videos, digests, digestSeq, pv, scan, launched, redelivered>>

DG_QueryNoItems(e) == DG_QueryNoItemsOf(e, Rendered(NewestFirst(Eligible)))

\* The digest is generated and its DigestHistory row flushed as "pending": the
\* sequence hands out the id, the row stays with the session.
DG_ComposeOf(e, rendered) ==
    /\ DG_AtQuery(e)
    /\ Eligible # {}
    /\ rendered # {}
    /\ digestSeq' = digestSeq + 1
    /\ dg' = Step(dg, e,
                [pc |-> "sending", trigger_reason |-> e.trigger_reason,
                 retries |-> e.retries,
                 list |-> NewestFirst(Eligible),
                 rendered |-> rendered,
                 digest_id |-> digestSeq + 1])
    /\ ret' = NoReturn
    /\ UNCHANGED <<channels, call, videos, digests, queue, pv, scan, launched, redelivered>>

DG_Compose(e) == DG_ComposeOf(e, Rendered(NewestFirst(Eligible)))

DigestRow(e, status, error) ==
    [email_status |-> status,
     email_error |-> error,
     trigger_reason |-> e.trigger_reason,
     video_count |-> Cardinality(e.rendered),
     rendered |-> e.rendered]

\* Variant: the row becomes "sent" and no video is marked.
DG_SendOk_NoMark(e) ==
    /\ BagIn(e, dg) /\ e.pc = "sending"
    /\ digests' = digests @@ (e.digest_id :> DigestRow(e, "sent", NULL))
    /\ dg' = dg (-) SetToBag({e})
    /\ ret' = DigestReturned("sent", Cardinality(e.rendered))
    /\ UNCHANGED <<channels, call, videos, digestSeq, queue, pv, scan, launched, redelivered>>

\* email_result.success: the row becomes "sent" and the first 50 videos of the
\* list get the back-reference, in one commit.
DG_SendOkOf(e, marked) ==
    /\ BagIn(e, dg) /\ e.pc = "sending"
    /\ digests' = digests @@ (e.digest_id :> DigestRow(e, "sent", NULL))
    /\ videos' = [v \in Known |->
                    IF v \in marked
                    THEN [videos[v] EXCEPT !.included_in_digest_id = e.digest_id]
                    ELSE videos[v]]
    /\ dg' = dg (-) SetToBag({e})
    /\ ret' = DigestReturned("sent", Cardinality(e.rendered))
    /\ UNCHANGED <<channels, call, digestSeq, queue, pv, scan, launched, redelivered>>

DG_SendOk(e) == DG_SendOkOf(e, Marked(e.list))

\* Variant: the failed send marks the videos all the same.
DG_SendFail_Marks(e) ==
    /\ BagIn(e, dg) /\ e.pc = "sending"
    /\ digests' = digests @@ (e.digest_id :> DigestRow(e, "failed", "err"))
    /\ videos' = [v \in Known |->
                    IF v \in Marked(e.list)
                    THEN [videos[v] EXCEPT !.included_in_digest_id = e.digest_id]
                    ELSE videos[v]]
    /\ DG_Retry(queue, e.trigger_reason, e.retries)
    /\ dg' = dg (-) SetToBag({e})
    /\ UNCHANGED <<channels, call, digestSeq, pv, scan, launched, redelivered>>

\* not email_result.success: the row is committed as "failed" with the error,
\* then Exception("Email failed: ...") leaves the task through self.retry.
DG_SendFail(e) ==
    /\ BagIn(e, dg) /\ e.pc = "sending"
    /\ digests' = digests @@ (e.digest_id :> DigestRow(e, "failed", "err"))
    /\ DG_Retry(queue, e.trigger_reason, e.retries)
    /\ dg' = dg (-) SetToBag({e})
    /\ UNCHANGED <<channels, call, videos, digestSeq, pv, scan, launched, redelivered>>

\* --------------------------------------------------------- video filter

MIN_VIDEO_DURATION_SECONDS == 60
\* if duration < 120: continue, in both scans that read the video details.
SCAN_MIN_DURATION_SECONDS == 120

\* contentDetails.duration of a video resource: an ISO 8601 duration of
\* minutes and seconds, a string isodate does not parse, or no such key.
DurationStrs ==
    {[kind |-> "missing"], [kind |-> "unparseable"]}
    \cup {[kind |-> "iso", m |-> m, s |-> s] : m \in 0..2, s \in {0, 59}}

PT0S == [kind |-> "iso", m |-> 0, s |-> 0]

\* isodate.parse_duration(...).total_seconds(), 0 when parsing raises.
parse_iso8601_duration(d) == IF d.kind = "iso" THEN 60 * d.m + d.s ELSE 0

\* content_details.get("duration", "PT0S")
DurationStr(video) ==
    IF video.duration.kind = "missing" THEN PT0S ELSE video.duration

\* A video resource as the filter reads it.  liveStreamingDetails is absent,
\* present and empty ({}), or present with content.
VideoResources ==
    [video_id : {1},
     liveStreamingDetails : {"absent", "empty", "present"},
     liveBroadcastContent : {"none", "live", "upcoming"},
     duration : DurationStrs]

\* Variant: the Shorts check with <= .
is_valid_video_AtMost(video) ==
    /\ video.liveStreamingDetails = "absent"
    /\ video.liveBroadcastContent \notin {"live", "upcoming"}
    /\ ~(parse_iso8601_duration(DurationStr(video)) <= MIN_VIDEO_DURATION_SECONDS)

is_valid_video(video) ==
    IF video.liveStreamingDetails # "absent" THEN FALSE
    ELSE IF video.liveBroadcastContent \in {"live", "upcoming"} THEN FALSE
    ELSE IF parse_iso8601_duration(DurationStr(video)) < MIN_VIDEO_DURATION_SECONDS
         THEN FALSE
    ELSE TRUE

\* check_for_new_videos registers what get_channel_videos returns: playlist
\* items, with no duration and no live status; nothing is filtered.
CheckSurvivors(fetched) == {video.video_id : video \in fetched}

\* The scans that call get_video_details: duration_seconds below 120 is
\* skipped, and so is a liveStreamingDetails that is truthy.
DetailSurvivors(fetched) ==
    {video.video_id : video \in
        {w \in fetched :
            /\ ~(parse_iso8601_duration(DurationStr(w)) < SCAN_MIN_DURATION_SECONDS)
            /\ w.liveStreamingDetails # "present"}}

\* The candidate YouTube returns to the scan that runs next.
Candidate(video) == [op |-> "candidate", video |-> video]

\* is_valid_video(video) is called on the candidate.
Filter_IsValidVideo ==
    /\ call.op = "candidate"
    /\ call' = [op |-> "is_valid_video", video |-> call.video,
                result |-> is_valid_video(call.video)]
    /\ UNCHANGED <<channels, videos, digests, digestSeq, queue, pv, scan, dg, launched,
                   redelivered, ret>>

\* check_for_new_videos fetches the candidate.
Scan_Check ==
    /\ call.op = "candidate"
    /\ Check_Register(CheckSurvivors({call.video}))

\* The inline sync of generate_and_send_digest fetches the candidate.
Scan_Inline(m) ==
    /\ call.op = "candidate"
    /\ DG_Sync(m, DetailSurvivors({call.video}))

\* Variant: the scan writes the row of every fetched video anew.
Meta_Sync_Upsert(fetched) ==
    /\ (fetched \ Known) \cap ScanUncommitted = {}
    /\ videos' = [v \in fetched |-> NewVideoRow] @@ videos
    /\ queue' = EnqueueAll(queue, {PVMsg(v, 0) : v \in fetched \ Known})
    /\ ret' = Returned("sync_channel_metadata", "completed")
    /\ UNCHANGED <<channels, call, digests, digestSeq, pv, scan, dg, launched, redelivered>>

\* sync_channel_metadata(fetch_videos=True): the survivors without a row get a
\* pending row, the rows are committed, then a process_video message is sent
\* for each of them.
Meta_Sync(fetched) ==
    /\ (fetched \ Known) \cap ScanUncommitted = {}
    /\ videos' = videos @@ [v \in fetched \ Known |-> NewVideoRow]
    /\ queue' = EnqueueAll(queue, {PVMsg(v, 0) : v \in fetched \ Known})
    /\ ret' = Returned("sync_channel_metadata", "completed")
    /\ UNCHANGED <<channels, call, digests, digestSeq, pv, scan, dg, launched, redelivered>>

\* sync_channel_metadata fetches the candidate.
Scan_Metadata ==
    /\ call.op = "candidate"
    /\ Meta_Sync(DetailSurvivors({call.video}))

\* ---------------------------------------------------------------- Next

\* The scan and the process_video steps that every delivery discipline has.
PipelineNext ==
    \/ \E m \in BagToSet(queue) : PV_StartNotFound(m)
    \/ \E m \in BagToSet(queue) : PV_StartProcessing(m)
    \/ \E e \in BagToSet(pv), source \in TranscriptSources : PV_TranscriptOk(e, source)
    \/ \E e \in BagToSet(pv) : PV_TranscriptFail(e)
    \/ \E e \in BagToSet(pv), c \in Categories, core \in CoreMessages :
          PV_SummaryOk(e, c, core)
    \/ \E e \in BagToSet(pv) : PV_SummaryFail(e)
    \/ \E fetched \in SUBSET VideoIds : Check_Register(fetched)
    \/ Check_Commit
    \/ Check_ThresholdDue
    \/ Check_ThresholdNotDue

DigestNext ==
    \/ \E reason \in {"scheduled", "manual"} : Launch(reason)
    \/ \E m \in BagToSet(queue), fetched \in SUBSET VideoIds : DG_Sync(m, fetched)
    \/ \E m \in BagToSet(queue), fetched \in SUBSET VideoIds :
          DG_SyncConflict(m, fetched)
    \/ \E e \in BagToSet(dg) : DG_ProcStart(e)
    \/ \E e \in BagToSet(dg) : DG_TranscriptFail(e)
    \/ \E e \in BagToSet(dg), source \in TranscriptSources, c \in Categories,
          core \in CoreMessages : DG_SummaryOk(e, source, c, core)
    \/ \E e \in BagToSet(dg), source \in TranscriptSources : DG_SummaryFail(e, source)
    \/ \E e \in BagToSet(dg) : DG_QueryEmpty(e)
    \/ \E e \in BagToSet(dg) : DG_QueryNoItems(e)
    \/ \E e \in BagToSet(dg) : DG_Compose(e)
    \/ \E e \in BagToSet(dg) : DG_SendOk(e)
    \/ \E e \in BagToSet(dg) : DG_SendFail(e)

\* The whole system, every message delivered once.  A process_video message
\* then never meets a completed row (a video has one message or one execution
\* at a time), and the rows of _process_videos_sync are the pending rows its
\* own task created: PV_StartSkipped and DG_ProcSkip have no reachable state
\* that enables them here.
Next == PipelineNext \/ DigestNext

Spec == Init /\ [][Next]_vars

\* The scan and process_video under a broker that may deliver a message
\* twice: two executions for one video overlap, or the second one finds the
\* video completed.
NextAtLeastOnce ==
    \/ PipelineNext
    \/ \E m \in BagToSet(queue) : PV_StartSkipped(m)
    \/ \E m \in BagToSet(queue) : Redeliver(m)

SpecAtLeastOnce == Init /\ [][NextAtLeastOnce]_vars

\* The scan and process_video alone, under the scheduling the deployment
\* gives them: a worker takes every queued process_video message, every
\* transcript and summary call of a running execution returns (with a result
\* or an exception), and a scan that has started runs to its end.  When and
\* how often beat starts a scan is left open.
PipelineFairness ==
    /\ WF_vars(\E m \in BagToSet(queue) :
                  PV_StartNotFound(m) \/ PV_StartProcessing(m))
    /\ WF_vars(\E e \in BagToSet(pv) :
                  \/ \E source \in TranscriptSources : PV_TranscriptOk(e, source)
                  \/ PV_TranscriptFail(e))
    /\ WF_vars(\E e \in BagToSet(pv) :
                  \/ \E c \in Categories, core \in CoreMessages :
                        PV_SummaryOk(e, c, core)
                  \/ PV_SummaryFail(e))
    /\ WF_vars(Check_Commit \/ Check_ThresholdDue \/ Check_ThresholdNotDue)

SpecPipelineFair == Init /\ [][PipelineNext]_vars /\ PipelineFairness

\* The system without beat and without the dashboard: the only digest tasks
\* are those check_for_new_videos enqueues when the threshold is reached.  By
\* then every video id has its row, so the inline sync of such a task finds
\* no new video and its processing loop has nothing to do; the tasks are too
\* few to mark every completed video, so the query is never empty.
NextThresholdOnly ==
    \/ PipelineNext
    \/ \E m \in BagToSet(queue), fetched \in SUBSET VideoIds : DG_Sync(m, fetched)
    \/ \E e \in BagToSet(dg) : DG_QueryNoItems(e)
    \/ \E e \in BagToSet(dg) : DG_Compose(e)
    \/ \E e \in BagToSet(dg) : DG_SendOk(e)
    \/ \E e \in BagToSet(dg) : DG_SendFail(e)

SpecThresholdOnly == Init /\ [][NextThresholdOnly]_vars

\* The same system with the cap of 50 above the number of videos, as it is
\* for every digest of fewer than 50 videos: generate prepares the whole
\* list of the query and a successful send marks the whole list.
DispatchCap == 2

Dispatch_QueryNoItems(e) ==
    DG_QueryNoItemsOf(e, RenderedWithin(NewestFirst(Eligible), DispatchCap))

Dispatch_Compose(e) ==
    DG_ComposeOf(e, RenderedWithin(NewestFirst(Eligible), DispatchCap))

Dispatch_SendOk(e) == DG_SendOkOf(e, MarkedWithin(e.list, DispatchCap))

NextDispatch ==
    \/ PipelineNext
    \/ \E m \in BagToSet(queue), fetched \in SUBSET VideoIds : DG_Sync(m, fetched)
    \/ \E e \in BagToSet(dg) : DG_QueryEmpty(e)
    \/ \E e \in BagToSet(dg) : Dispatch_QueryNoItems(e)
    \/ \E e \in BagToSet(dg) : Dispatch_Compose(e)
    \/ \E e \in BagToSet(dg) : Dispatch_SendOk(e)
    \/ \E e \in BagToSet(dg) : DG_SendFail(e)

SpecDispatch == Init /\ [][NextDispatch]_vars

\* The three scans side by side: check_for_new_videos with process_video,
\* the digest tasks of the threshold with their inline sync, and
\* sync_channel_metadata started at any moment.
NextAllScans ==
    \/ NextThresholdOnly
    \/ \E fetched \in SUBSET VideoIds : Meta_Sync(fetched)

SpecAllScans == Init /\ [][NextAllScans]_vars

\* ------------------------------------------- a scan, channel by channel

NumChannels == 3
CHECK_MAX_RETRIES == 3     \* check_for_new_videos: self.retry(max_retries=3)

Channels == 1..NumChannels
\* The one new video channel c has on YouTube.
VideoOf(c) == c

\* A channels row: is_active (default True) and last_checked (None until a
\* scan stamps it).
ChannelRow(is_active, last_checked) ==
    [is_active |-> is_active, last_checked |-> last_checked]

\* A scan at channel next.  new: the video rows added to the session;
\* new_channels: the channel rows added to it; ok: the channels whose fetch
\* and registration went through; broken: a flush has failed and the session
\* has not been rolled back.
ChanScanning(path, retries, next, new, ok, checked, found, broken) ==
    [pc |-> "channels", path |-> path, retries |-> retries, next |-> next,
     new |-> new, new_channels |-> {}, ok |-> ok, channels_checked |-> checked,
     new_videos_found |-> found, broken |-> broken]

\* The upsert at the head of the loop body: a subscribed channel without a
\* row gets one (is_active=True) in the session; a channel with a row keeps
\* its is_active, which the loop does not read.
UpsertChannel(c) ==
    IF c \in DOMAIN channels THEN scan.new_channels
    ELSE scan.new_channels \cup {c}

\* The result dict of a scan.
ScanReturned(task, status, checked, found) ==
    [task |-> task, status |-> status, channels_checked |-> checked,
     new_videos_found |-> found]

TaskOf(path) ==
    IF path = "check" THEN "check_for_new_videos" ELSE "generate_and_send_digest"

\* The task starts: youtube.get_subscriptions() has returned the channels.
\* path "check" is check_for_new_videos, path "inline" is
\* _sync_channels_and_fetch_videos inside generate_and_send_digest.
ChanScan_Start(path) ==
    /\ scan.pc = "idle"
    /\ scan' = ChanScanning(path, 0, 1, {}, {}, 0, 0, FALSE)
    /\ ret' = NoReturn
    /\ UNCHANGED <<channels, call, videos, digests, digestSeq, queue, pv, dg, launched,
                   redelivered>>

ChanScan_AtChannel ==
    /\ scan.pc = "channels" /\ scan.next <= NumChannels /\ ~scan.broken

\* The channel's videos are fetched and the one without a row is added.
\* check_for_new_videos flushes it and sends its process_video message at
\* once; the inline sync only adds it to the session.
ChanScan_ChannelOk ==
    /\ ChanScan_AtChannel
    /\ LET v == VideoOf(scan.next)
           isNew == v \notin Known \cup scan.new
       IN /\ scan' = [scan EXCEPT
                        !.next = @ + 1,
                        !.new_channels = UpsertChannel(scan.next),
                        !.ok = @ \cup {scan.next},
                        !.channels_checked = @ + 1,
                        !.new = IF isNew THEN @ \cup {v} ELSE @,
                        !.new_videos_found = IF isNew THEN @ + 1 ELSE @]
          /\ queue' = IF isNew /\ scan.path = "check"
                      THEN Enqueue(queue, PVMsg(v, 0)) ELSE queue
    /\ ret' = NoReturn
    /\ UNCHANGED <<channels, call, videos, digests, digestSeq, pv, dg, launched, redelivered>>

\* get_channel_videos (or get_video_details) raises: except Exception logs a
\* warning and continues with the next channel.
ChanScan_FetchRaises ==
    /\ ChanScan_AtChannel
    /\ scan' = [scan EXCEPT !.next = @ + 1,
                            !.new_channels = UpsertChannel(scan.next)]
    /\ ret' = NoReturn
    /\ UNCHANGED <<channels, call, videos, digests, digestSeq, queue, pv, dg, launched,
                   redelivered>>

\* check_for_new_videos: db.flush() of the channel's new row raises (the id
\* was inserted by another scan after the existence check, or a NOT NULL
\* column is None).  The same except branch continues; the flush has rolled
\* the transaction back and the session refuses every further statement.
ChanScan_FlushRaises ==
    /\ ChanScan_AtChannel
    /\ scan.path = "check"
    /\ VideoOf(scan.next) \notin Known \cup scan.new
    /\ scan' = [scan EXCEPT
                  !.next = @ + 1,
                  !.channels_checked = @ + 1,
                  !.new = {},
                  !.new_channels = {},
                  !.broken = TRUE]
    /\ ret' = NoReturn
    /\ UNCHANGED <<channels, call, videos, digests, digestSeq, queue, pv, dg, launched,
                   redelivered>>

\* The exception leaves the task: self.retry runs it again from the start
\* while retries remain.
ChanScan_Raise ==
    IF scan.retries < (IF scan.path = "check" THEN CHECK_MAX_RETRIES
                       ELSE DIGEST_MAX_RETRIES)
    THEN /\ scan' = ChanScanning(scan.path, scan.retries + 1, 1, {}, {}, 0, 0, FALSE)
         /\ ret' = Returned(TaskOf(scan.path), "retry")
    ELSE /\ scan' = [pc |-> "failed"]
         /\ ret' = Returned(TaskOf(scan.path), "failure")

\* The next statement on the broken session (the channel query of the next
\* iteration, or the last_checked update after the loop) raises
\* PendingRollbackError outside the per-channel try.
ChanScan_Abort ==
    /\ scan.pc = "channels" /\ scan.broken
    /\ ChanScan_Raise
    /\ UNCHANGED <<channels, call, videos, digests, digestSeq, queue, pv, dg, launched,
                   redelivered>>

\* The inline sync has no flush in the loop: an INSERT that fails does so in
\* the db.commit() after it, outside every try; nothing is committed.
ChanScan_CommitRaises ==
    /\ scan.pc = "channels" /\ scan.next > NumChannels /\ ~scan.broken
    /\ scan.path = "inline"
    /\ scan.new # {}
    /\ ChanScan_Raise
    /\ UNCHANGED <<channels, call, videos, digests, digestSeq, queue, pv, dg, launched,
                   redelivered>>

\* The channel rows the commit leaves.  check_for_new_videos stamps
\* last_checked on every row with is_active == True before the commit; the
\* inline sync has stamped the row of every subscription in the loop.
CommittedChannels ==
    [c \in DOMAIN channels \cup scan.new_channels |->
        LET is_active == IF c \in DOMAIN channels THEN channels[c].is_active
                         ELSE TRUE
            stamped == IF scan.path = "check" THEN is_active ELSE TRUE
        IN ChannelRow(is_active,
                      IF stamped THEN "now"
                      ELSE channels[c].last_checked)]

\* After the last channel: db.commit(), and for check_for_new_videos the
\* threshold check and the result with its counts.  The inline sync returns
\* new_video_ids to generate_and_send_digest.
ChanScan_Finish ==
    /\ scan.pc = "channels" /\ scan.next > NumChannels /\ ~scan.broken
    /\ videos' = videos @@ [v \in scan.new |-> NewVideoRow]
    /\ channels' = CommittedChannels
    /\ scan' = [pc |-> "done"]
    /\ ret' = ScanReturned(TaskOf(scan.path),
                           IF scan.path = "check" THEN "completed" ELSE "synced",
                           scan.channels_checked, scan.new_videos_found)
    /\ queue' = IF scan.path = "check" /\ ThresholdDue
                THEN Enqueue(queue, DigestMsg("scheduled", 0)) ELSE queue
    /\ UNCHANGED <<call, digests, digestSeq, pv, dg, launched, redelivered>>

NextChannels ==
    \/ \E path \in {"check", "inline"} : ChanScan_Start(path)
    \/ ChanScan_ChannelOk
    \/ ChanScan_FetchRaises
    \/ ChanScan_FlushRaises
    \/ ChanScan_Abort
    \/ ChanScan_CommitRaises
    \/ ChanScan_Finish

SpecChannels == Init /\ [][NextChannels]_vars

\* The channels table as a scan can find it: any of the subscribed channels
\* has a row already, active or not, none stamped yet.
InitChannelRows ==
    /\ channels \in UNION {[S -> {ChannelRow(a, NULL) : a \in BOOLEAN}] :
                           S \in SUBSET Channels}
    /\ videos = <<>>
    /\ digests = <<>>
    /\ digestSeq = 0
    /\ queue = EmptyBag
    /\ pv = EmptyBag
    /\ scan = ScanIdle
    /\ dg = EmptyBag
    /\ launched = 0
    /\ redelivered = 0
    /\ ret = NoReturn
    /\ call = NoCall

SpecChannelRows == InitChannelRows /\ [][NextChannels]_vars

\* One candidate video and the three scans that can meet it, with the filter
\* itself applied to the same candidate.
InitFilter ==
    /\ channels = <<>>
    /\ videos \in {<<>>, (1 :> NewVideoRow)}
    /\ digests = <<>>
    /\ digestSeq = 0
    /\ queue = EmptyBag
    /\ pv = EmptyBag
    /\ scan = ScanIdle
    /\ dg = EmptyBag
    /\ launched = 0
    /\ redelivered = 0
    /\ ret = NoReturn
    /\ call \in {Candidate(video) : video \in VideoResources}

NextFilter ==
    \/ Filter_IsValidVideo
    \/ Scan_Check
    \/ Check_Commit
    \/ Check_ThresholdNotDue
    \/ \E reason \in {"scheduled", "manual"} : Launch(reason)
    \/ \E m \in BagToSet(queue) : Scan_Inline(m)
    \/ Scan_Metadata

SpecFilter == InitFilter /\ [][NextFilter]_vars

\* ----------------------------------------------------- digest generator

\* class Category(str, Enum): the closed set of category values.
Category ==
    {"Claude Code", "Coding/AI Allgemein", "Brettspiele", "Gesundheit", "Sport",
     "Beziehung/Sexualität", "Beachvolleyball", "Sonstige"}

\* CATEGORY_PRIORITY, key by key as the module's source text spells them.
CATEGORY_PRIORITY ==
    ("Claude Code" :> 0) @@ ("Coding/AI Allgemein" :> 1) @@ ("Brettspiele" :> 2)
    @@ ("Gesundheit" :> 3) @@ ("Sport" :> 4) @@ ("Beziehung/SexualitÃ¤t" :> 5)
    @@ ("Beachvolleyball" :> 6) @@ ("Sonstige" :> 99)

\* CATEGORY_PRIORITY.get(c, 50)
PriorityOf(c) ==
    IF c \in DOMAIN CATEGORY_PRIORITY THEN CATEGORY_PRIORITY[c] ELSE 50

PublishTimes == 1..2
Durations == {60, 120}
Summaries == {NoSummary} \cup {[core_message |-> m] : m \in CoreMessages}

\* The attributes of a ProcessedVideo that the generator reads.
VideoAttrs ==
    [published_at : PublishTimes, category : Category,
     duration_seconds : Durations, summary : Summaries]

\* The lists of up to max videos; video_id is the place in the list.
VideoLists(max) ==
    UNION {{[i \in 1..n |->
               [video_id |-> i, published_at |-> f[i].published_at,
                category |-> f[i].category,
                duration_seconds |-> f[i].duration_seconds,
                summary |-> f[i].summary]] : f \in [1..n -> VideoAttrs]}
           : n \in 0..max}

\* The lists of up to max VideoDigestItems.
ItemLists(max) ==
    UNION {{[i \in 1..n |->
               [video_id |-> i, published_at |-> f[i].published_at,
                category |-> f[i].category]]
            : f \in [1..n -> [published_at : PublishTimes, category : Category]]}
           : n \in 0..max}

\* sorted(..., key=published_at, reverse=True): the sort is stable, equal keys
\* keep the order they came in.
RECURSIVE SortedNewestFirst(_)
SortedNewestFirst(s) ==
    IF s = <<>> THEN <<>>
    ELSE LET n == Len(s)
             front == SortedNewestFirst(SubSeq(s, 1, n - 1))
             k == Cardinality({i \in 1..Len(front) :
                                 front[i].published_at >= s[n].published_at})
         IN SubSeq(front, 1, k) \o <<s[n]>> \o SubSeq(front, k + 1, Len(front))

\* The keys of groups: the categories in the order they first occur.
RECURSIVE GroupKeys(_)
GroupKeys(items) ==
    IF items = <<>> THEN <<>>
    ELSE LET n == Len(items)
             front == GroupKeys(SubSeq(items, 1, n - 1))
         IN IF items[n].category \in Range(front) THEN front
            ELSE Append(front, items[n].category)

\* sorted(groups.keys(), key=lambda c: CATEGORY_PRIORITY.get(c, 50)), stable.
RECURSIVE SortedByPriority(_)
SortedByPriority(keys) ==
    IF keys = <<>> THEN <<>>
    ELSE LET n == Len(keys)
             front == SortedByPriority(SubSeq(keys, 1, n - 1))
             k == Cardinality({i \in 1..Len(front) :
                                 PriorityOf(front[i]) <= PriorityOf(keys[n])})
         IN SubSeq(front, 1, k) \o <<keys[n]>> \o SubSeq(front, k + 1, Len(front))

InCategory(c, item) == item.category = c

\* DigestGenerator._group_by_category: the dict as the sequence of its
\* (category, videos) entries.
group_by_category(items) ==
    LET cats == SortedByPriority(GroupKeys(items))
    IN [j \in 1..Len(cats) |->
          [category |-> cats[j],
           videos |-> SortedNewestFirst(
                          SelectSeq(items, LAMBDA it : InCategory(cats[j], it)))]]

RECURSIVE TotalDuration(_)
TotalDuration(list) ==
    IF list = <<>> THEN 0
    ELSE list[1].duration_seconds + TotalDuration(Tail(list))

CategoryCounts(list) ==
    [c \in {list[i].category : i \in 1..Len(list)} |->
        Cardinality({i \in 1..Len(list) : list[i].category = c})]

\* DigestGenerator._calculate_stats
calculate_stats(list) ==
    [total_duration |-> TotalDuration(list), category_counts |-> CategoryCounts(list)]

\* DigestGenerator._prepare_video_item returns an item (not None).
PreparesItem(video) == video.summary # NoSummary /\ video.summary.core_message # ""

prepare_video_item(video) ==
    [video_id |-> video.video_id, published_at |-> video.published_at,
     category |-> video.category]

RECURSIVE PreparedItems(_)
PreparedItems(list) ==
    IF list = <<>> THEN <<>>
    ELSE IF PreparesItem(list[1])
         THEN <<prepare_video_item(list[1])>> \o PreparedItems(Tail(list))
         ELSE PreparedItems(Tail(list))

DigestGenerationError(msg) == [ok |-> FALSE, error |-> msg]

\* DigestGenerator.generate: the name videos is bound again to the capped list
\* before the items are prepared and before the statistics are computed.
generate(list) ==
    IF list = <<>> THEN DigestGenerationError("No videos provided for digest")
    ELSE LET vids == IF Len(list) > MAX_VIDEOS_PER_DIGEST
                     THEN Prefix(SortedNewestFirst(list), MAX_VIDEOS_PER_DIGEST)
                     ELSE list
             video_items == PreparedItems(vids)
             stats == calculate_stats(vids)
         IN IF video_items = <<>>
            THEN DigestGenerationError("No videos with valid summaries found")
            ELSE [ok |-> TRUE,
                  video_count |-> Len(video_items),
                  grouped_videos |-> group_by_category(video_items),
                  total_duration_seconds |-> stats.total_duration,
                  category_counts |-> stats.category_counts]

\* generator.generate(videos) is called on a list of videos.
Gen_Generate ==
    /\ call.op = "videos"
    /\ call' = [op |-> "generate", videos |-> call.videos,
                result |-> generate(call.videos)]
    /\ UNCHANGED <<channels, videos, digests, digestSeq, queue, pv, scan, dg, launched,
                   redelivered, ret>>

\* _group_by_category(videos) is called on a list of items.
Gen_GroupByCategory ==
    /\ call.op = "items"
    /\ call' = [op |-> "group_by_category", items |-> call.items,
                result |-> group_by_category(call.items)]
    /\ UNCHANGED <<channels, videos, digests, digestSeq, queue, pv, scan, dg, launched,
                   redelivered, ret>>

InitGenerator ==
    /\ channels = <<>>
    /\ videos = <<>>
    /\ digests = <<>>
    /\ digestSeq = 0
    /\ queue = EmptyBag
    /\ pv = EmptyBag
    /\ scan = ScanIdle
    /\ dg = EmptyBag
    /\ launched = 0
    /\ redelivered = 0
    /\ ret = NoReturn
    /\ call \in {[op |-> "videos", videos |-> l] : l \in VideoLists(MaxGenVideos)}
                \cup {[op |-> "items", items |-> l] : l \in ItemLists(MaxGroupItems)}

NextGenerator == Gen_Generate \/ Gen_GroupByCategory

SpecGenerator == InitGenerator /\ [][NextGenerator]_vars

\* ------------------------------------------- summarizer: the model call

\* What one generate_content call can give: a parsed object; no parsed object
\* and a text that validates against the schema; an exception of the client;
\* a text that is not JSON; a JSON text whose category is not a member of
\* Category (model_validate raises); neither parsed object nor text.
GeminiSuccesses == {"parsed", "valid_text"}
GeminiFailures == {"api_error", "invalid_json", "invalid_category", "empty"}

ResponseSchemas == {"VideoSummary", "CategoryResponse"}

\* Variant: one attempt more than MAX_RETRIES.
GeminiAttemptsLeft_OneMore(attempt) == attempt <= GEMINI_MAX_RETRIES

\* for attempt in range(MAX_RETRIES)
GeminiAttemptsLeft(attempt) == attempt < GEMINI_MAX_RETRIES

\* _call_gemini_with_retry(prompt, response_schema) is entered.
GeminiCall(schema) ==
    [op |-> "_call_gemini_with_retry", schema |-> schema, pc |-> "calling",
     attempt |-> 0, responses |-> <<>>, slept |-> <<>>, retry_later |-> FALSE]

\* An attempt ends with return response.parsed or with
\* return response_schema.model_validate(data).
Gemini_Returns(response) ==
    /\ call.op = "_call_gemini_with_retry"
    /\ call.pc = "calling"
    /\ call' = [call EXCEPT !.pc = "returned",
                            !.responses = Append(@, response)]
    /\ UNCHANGED <<channels, videos, digests, digestSeq, queue, pv, scan, dg, launched,
                   redelivered, ret>>

\* An attempt ends in except Exception: the error is kept, the delay of the
\* attempt is slept unless it was the last one, and the loop goes on; after
\* the loop SummarizationError(error_msg, retry_later=True) is raised.
Gemini_Fails(response) ==
    /\ call.op = "_call_gemini_with_retry"
    /\ call.pc = "calling"
    /\ LET attempt == call.attempt
           slept == IF attempt < GEMINI_MAX_RETRIES - 1
                    THEN Append(call.slept, GEMINI_RETRY_DELAYS[attempt + 1])
                    ELSE call.slept
           left == GeminiAttemptsLeft(attempt + 1)
       IN call' = [call EXCEPT !.attempt = attempt + 1,
                               !.responses = Append(@, response),
                               !.slept = slept,
                               !.pc = IF left THEN "calling" ELSE "raised",
                               !.retry_later = ~left]
    /\ UNCHANGED <<channels, videos, digests, digestSeq, queue, pv, scan, dg, launched,
                   redelivered, ret>>

InitGemini ==
    /\ channels = <<>>
    /\ videos = <<>>
    /\ digests = <<>>
    /\ digestSeq = 0
    /\ queue = EmptyBag
    /\ pv = EmptyBag
    /\ scan = ScanIdle
    /\ dg = EmptyBag
    /\ launched = 0
    /\ redelivered = 0
    /\ ret = NoReturn
    /\ call \in {GeminiCall(schema) : schema \in ResponseSchemas}

NextGemini ==
    \/ \E response \in GeminiSuccesses : Gemini_Returns(response)
    \/ \E response \in GeminiFailures : Gemini_Fails(response)

SpecGemini == InitGemini /\ [][NextGemini]_vars

\* ------------------------------------ process_video with get_transcript

\* get_transcript_youtube returns a result (manual or generated captions) or
\* None; get_transcript_supadata returns a result, None, or raises SupadataError.
YouTubeOutcomes == {"youtube", "youtube_auto", NULL}
SupadataOutcomes == {"supadata", NULL, "SupadataError"}

\* Variant: the fallback is asked whatever YouTube gave.
FallbackCalled_Always(youtube, use_fallback) == use_fallback

\* get_transcript_supadata is called: result of YouTube is None, use_fallback.
FallbackCalled(youtube, use_fallback) == youtube = NULL /\ use_fallback

\* TranscriptService.get_transcript for the execution (video_id, retries):
\* YouTube first, then Supadata, else TranscriptNotAvailable.  supadata is
\* what get_transcript_supadata gives if it is called.
get_transcript(video_id, retries, youtube, supadata, use_fallback) ==
    LET called == FallbackCalled(youtube, use_fallback)
        fallback == IF called THEN supadata ELSE NULL
    IN [op |-> "get_transcript", video_id |-> video_id, retries |-> retries,
        fallback_called |-> called,
        source |-> IF youtube # NULL THEN youtube
                   ELSE IF fallback = "supadata" THEN fallback ELSE NULL,
        raised |-> IF youtube # NULL \/ fallback = "supadata" THEN NULL
                   ELSE IF fallback = "SupadataError" THEN "SupadataError"
                   ELSE "TranscriptNotAvailable"]

\* The outcome in call belongs to the execution e, which waits for it.
AwaitsTranscript(e) ==
    /\ call.op = "get_transcript"
    /\ e.pc = "fetch"
    /\ e.video_id = call.video_id
    /\ e.retries = call.retries

\* transcript_service.get_transcript(video_id) in process_video.
Transcript_Get(e, youtube, supadata) ==
    /\ BagIn(e, pv) /\ e.pc = "fetch"
    /\ \A f \in BagToSet(pv) : ~AwaitsTranscript(f)
    /\ call' = get_transcript(e.video_id, e.retries, youtube, supadata, TRUE)
    /\ UNCHANGED <<channels, videos, digests, digestSeq, queue, pv, scan, dg, launched,
                   redelivered, ret>>

\* get_transcript returned a TranscriptResult.
Transcript_Returned(e) ==
    /\ AwaitsTranscript(e)
    /\ call.raised = NULL
    /\ PV_TranscriptOk(e, call.source)

\* get_transcript raised: the except Exception branch of process_video.
Transcript_Raised(e) ==
    /\ AwaitsTranscript(e)
    /\ call.raised # NULL
    /\ PV_TranscriptFail(e)

NextTranscript ==
    \/ \E fetched \in SUBSET VideoIds : Check_Register(fetched)
    \/ Check_Commit
    \/ Check_ThresholdDue
    \/ Check_ThresholdNotDue
    \/ \E m \in BagToSet(queue) : PV_StartNotFound(m)
    \/ \E m \in BagToSet(queue) : PV_StartProcessing(m)
    \/ \E e \in BagToSet(pv), youtube \in YouTubeOutcomes,
          supadata \in SupadataOutcomes : Transcript_Get(e, youtube, supadata)
    \/ \E e \in BagToSet(pv) : Transcript_Returned(e)
    \/ \E e \in BagToSet(pv) : Transcript_Raised(e)
    \/ \E e \in BagToSet(pv), c \in Categories, core \in CoreMessages :
          PV_SummaryOk(e, c, core)
    \/ \E e \in BagToSet(pv) : PV_SummaryFail(e)

SpecTranscript == Init /\ [][NextTranscript]_vars

\* ---------------------------------------------- email service: send_digest

\* What one SMTP attempt can give: the message is sent; an exception that is
\* not retried; an exception of the retried classes; any other exception,
\* which no except clause of _send_with_retry catches.
SmtpRefusals == {"SMTPAuthenticationError", "SMTPRecipientsRefused"}
SmtpTransportErrors == {"SMTPException", "OSError", "TimeoutError"}
SmtpOutcomes == {"sent", "Exception"} \cup SmtpRefusals \cup SmtpTransportErrors

SubjectLengths == {MAX_SUBJECT_LENGTH - 1, MAX_SUBJECT_LENGTH, MAX_SUBJECT_LENGTH + 1}
EmailSizes == {MAX_EMAIL_SIZE_BYTES - 1, MAX_EMAIL_SIZE_BYTES, MAX_EMAIL_SIZE_BYTES + 1}

\* EmailResult(success, message, attempts); attempts defaults to 1.
EmailResult(success, message, attempts) ==
    [success |-> success, message |-> message, attempts |-> attempts]
NoResult == EmailResult(FALSE, NULL, 0)

\* send_digest(html_content, plain_content, subject) is entered.
SendDigestCall(credentials, subject_length, total_size) ==
    [op |-> "send_digest", pc |-> "validate", credentials |-> credentials,
     subject_length |-> subject_length, total_size |-> total_size,
     attempt |-> 0, outcomes |-> <<>>, slept |-> <<>>, result |-> NoResult]

\* Variant: a subject of exactly MAX_SUBJECT_LENGTH characters is rejected.
SubjectTooLong_AtLimit(subject_length) == subject_length >= MAX_SUBJECT_LENGTH

\* if len(subject) > MAX_SUBJECT_LENGTH
SubjectTooLong(subject_length) == subject_length > MAX_SUBJECT_LENGTH

\* if total_size > MAX_EMAIL_SIZE_BYTES
EmailTooLarge(total_size) == total_size > MAX_EMAIL_SIZE_BYTES

\* send_digest up to the call of _send_with_retry: the three checks.
Email_Validate ==
    /\ call.op = "send_digest"
    /\ call.pc = "validate"
    /\ call' =
         IF ~call.credentials
         THEN [call EXCEPT !.pc = "done", !.result =
                 EmailResult(FALSE, "SMTP credentials not configured", 1)]
         ELSE IF SubjectTooLong(call.subject_length)
         THEN [call EXCEPT !.pc = "done", !.result =
                 EmailResult(FALSE, "Subject too long", 1)]
         ELSE IF EmailTooLarge(call.total_size)
         THEN [call EXCEPT !.pc = "done", !.result =
                 EmailResult(FALSE, "Email too large", 1)]
         ELSE [call EXCEPT !.pc = "sending"]
    /\ UNCHANGED <<channels, videos, digests, digestSeq, queue, pv, scan, dg, launched,
                   redelivered, ret>>

\* Variant: the delay is slept after every failed attempt.
EmailDelayAfter_Always(attempt) == <<EMAIL_RETRY_DELAYS[attempt + 1]>>

\* if attempt < MAX_RETRIES - 1: time.sleep(RETRY_DELAYS[attempt])
EmailDelayAfter(attempt) ==
    IF attempt < EMAIL_MAX_RETRIES - 1
    THEN <<EMAIL_RETRY_DELAYS[attempt + 1]>> ELSE <<>>

\* An attempt sends the message: return EmailResult(success=True, ...).
Email_Sent ==
    /\ call.op = "send_digest"
    /\ call.pc = "sending"
    /\ call' = [call EXCEPT !.pc = "done",
                            !.outcomes = Append(@, "sent"),
                            !.result = EmailResult(TRUE, "Email sent successfully",
                                                   call.attempt + 1)]
    /\ UNCHANGED <<channels, videos, digests, digestSeq, queue, pv, scan, dg, launched,
                   redelivered, ret>>

\* Variant: a refused attempt is followed by the next attempt.
Refused_Retried(c, error) ==
    [c EXCEPT !.attempt = c.attempt + 1,
              !.outcomes = Append(@, error),
              !.pc = IF c.attempt + 1 < EMAIL_MAX_RETRIES THEN "sending" ELSE "done",
              !.result = IF c.attempt + 1 < EMAIL_MAX_RETRIES THEN @
                         ELSE EmailResult(FALSE, error, EMAIL_MAX_RETRIES)]

\* return EmailResult(success=False, message=..., attempts=attempt + 1)
Refused(c, error) ==
    [c EXCEPT !.pc = "done",
              !.outcomes = Append(@, error),
              !.result = EmailResult(FALSE, error, c.attempt + 1)]

\* except SMTPAuthenticationError / except SMTPRecipientsRefused: no retry.
Email_Refused(error) ==
    /\ call.op = "send_digest"
    /\ call.pc = "sending"
    /\ call' = Refused(call, error)
    /\ UNCHANGED <<channels, videos, digests, digestSeq, queue, pv, scan, dg, launched,
                   redelivered, ret>>

\* except (SMTPException, OSError, TimeoutError): the delay, then the next
\* attempt; after the loop EmailResult(success=False, attempts=MAX_RETRIES).
Email_TransportError(error) ==
    /\ call.op = "send_digest"
    /\ call.pc = "sending"
    /\ LET attempt == call.attempt
           left == attempt + 1 < EMAIL_MAX_RETRIES
       IN call' = [call EXCEPT
                     !.attempt = attempt + 1,
                     !.outcomes = Append(@, error),
                     !.slept = @ \o EmailDelayAfter(attempt),
                     !.pc = IF left THEN "sending" ELSE "done",
                     !.result = IF left THEN @
                                ELSE EmailResult(FALSE, "Failed to send email",
                                                 EMAIL_MAX_RETRIES)]
    /\ UNCHANGED <<channels, videos, digests, digestSeq, queue, pv, scan, dg, launched,
                   redelivered, ret>>

\* Any other exception leaves _send_with_retry and send_digest.
Email_Raises ==
    /\ call.op = "send_digest"
    /\ call.pc = "sending"
    /\ call' = [call EXCEPT !.pc = "raised", !.outcomes = Append(@, "Exception")]
    /\ UNCHANGED <<channels, videos, digests, digestSeq, queue, pv, scan, dg, launched,
                   redelivered, ret>>

InitEmail ==
    /\ channels = <<>>
    /\ videos = <<>>
    /\ digests = <<>>
    /\ digestSeq = 0
    /\ queue = EmptyBag
    /\ pv = EmptyBag
    /\ scan = ScanIdle
    /\ dg = EmptyBag
    /\ launched = 0
    /\ redelivered = 0
    /\ ret = NoReturn
    /\ call \in {SendDigestCall(c, n, size) :
                   c \in BOOLEAN, n \in SubjectLengths, size \in EmailSizes}

NextEmail ==
    \/ Email_Validate
    \/ Email_Sent
    \/ \E error \in SmtpRefusals : Email_Refused(error)
    \/ \E error \in SmtpTransportErrors : Email_TransportError(error)
    \/ Email_Raises

SpecEmail == InitEmail /\ [][NextEmail]_vars

\* ------------------------------------------------------------ chunking

\* The sets of at most marks positions of 1..n.
RECURSIVE PositionSets(_, _)
PositionSets(n, marks) ==
    IF marks = 0 THEN {{}}
    ELSE LET smaller == PositionSets(n, marks - 1)
         IN smaller \cup {Q \cup {i} : Q \in smaller, i \in 1..n}

\* A transcript is the sequence of its characters: letters ("a"), full stops
\* and blanks, with at most marks characters that are not letters.
Transcripts(max, marks) ==
    UNION {UNION {{[i \in 1..n |-> IF i \in P THEN f[i] ELSE "a"] :
                     f \in [P -> {".", " "}]} : P \in PositionSets(n, marks)} :
           n \in 0..max}

\* transcript[start:end], positions counted from 0.
Slice(t, start, end) ==
    SubSeq(t, start + 1, IF end < Len(t) THEN end ELSE Len(t))

\* str.strip(): the blanks at both ends are removed.
strip(s) ==
    LET solid == {i \in 1..Len(s) : s[i] # " "}
    IN IF solid = {} THEN <<>>
       ELSE SubSeq(s, CHOOSE i \in solid : \A j \in solid : i <= j,
                      CHOOSE i \in solid : \A j \in solid : j <= i)

\* transcript.rfind(". ", start, end): the highest position of ". " that lies
\* within [start, end), or -1.
rfind(t, start, end) ==
    LET last == IF end < Len(t) THEN end ELSE Len(t)
        found == {i \in start..(last - 2) : t[i + 1] = "." /\ t[i + 2] = " "}
    IN IF found = {} THEN -1
       ELSE CHOOSE i \in found : \A j \in found : j <= i

\* int(size * 0.8)
FourFifths(size) == (size * 8) \div 10

\* One pass of the while loop, from start: where the chunk ends.
ChunkEnd(t, start, size) ==
    LET end == start + size
        search_start == start + FourFifths(size)
        sentence_end == rfind(t, search_start, end)
    IN IF end < Len(t) /\ sentence_end > search_start
       THEN sentence_end + 1 ELSE end

\* while start < len(transcript): chunks.append(transcript[start:end].strip());
\* start = end - overlap
RECURSIVE ChunksFrom(_, _, _, _)
ChunksFrom(t, start, size, overlap) ==
    IF start < Len(t)
    THEN LET end == ChunkEnd(t, start, size)
         IN <<strip(Slice(t, start, end))>>
            \o ChunksFrom(t, end - overlap, size, overlap)
    ELSE <<>>

\* Variant: a transcript of exactly the threshold's length is split.
WithinThreshold_Strict(t, threshold) == Len(t) < threshold

\* if len(transcript) <= MAX_TRANSCRIPT_CHARS
WithinThreshold(t, threshold) == Len(t) <= threshold

\* The body the two chunkers share.
Chunks(t, threshold, size, overlap) ==
    IF WithinThreshold(t, threshold) THEN <<t>>
    ELSE ChunksFrom(t, 0, size, overlap)

\* SummarizationService._chunk_transcript(transcript)
summarizer_chunk_transcript(t) ==
    Chunks(t, MAX_TRANSCRIPT_CHARS, CHUNK_SIZE, CHUNK_OVERLAP)

\* TranscriptService.chunk_transcript(transcript) with its defaults.
chunk_transcript(t) ==
    Chunks(t, MAX_TRANSCRIPT_LENGTH, MAX_TRANSCRIPT_LENGTH, DEFAULT_OVERLAP)

Chunk_Summarizer ==
    /\ call.op = "transcript"
    /\ call' = [op |-> "chunked", transcript |-> call.transcript,
                threshold |-> MAX_TRANSCRIPT_CHARS, overlap |-> CHUNK_OVERLAP,
                result |-> summarizer_chunk_transcript(call.transcript)]
    /\ UNCHANGED <<channels, videos, digests, digestSeq, queue, pv, scan, dg, launched,
                   redelivered, ret>>

Chunk_TranscriptService ==
    /\ call.op = "transcript"
    /\ call' = [op |-> "chunked", transcript |-> call.transcript,
                threshold |-> MAX_TRANSCRIPT_LENGTH, overlap |-> DEFAULT_OVERLAP,
                result |-> chunk_transcript(call.transcript)]
    /\ UNCHANGED <<channels, videos, digests, digestSeq, queue, pv, scan, dg, launched,
                   redelivered, ret>>

InitChunking ==
    /\ channels = <<>>
    /\ videos = <<>>
    /\ digests = <<>>
    /\ digestSeq = 0
    /\ queue = EmptyBag
    /\ pv = EmptyBag
    /\ scan = ScanIdle
    /\ dg = EmptyBag
    /\ launched = 0
    /\ redelivered = 0
    /\ ret = NoReturn
    /\ call \in {[op |-> "transcript", transcript |-> t] : t \in Transcripts(MaxTranscriptChars, MaxMarks)}

NextChunking == Chunk_Summarizer \/ Chunk_TranscriptService

SpecChunking == InitChunking /\ [][NextChunking]_vars

\* ------------------------------------------- summarizer: summarize_video

\* Variant: every transcript takes the chunked path.
NeedsSynthesis_Always(chunks) == TRUE

\* if len(chunks) == 1: one prompt on the transcript; else
\* _summarize_with_chunking.
NeedsSynthesis(chunks) == Len(chunks) # 1

\* SUMMARIZATION_PROMPT.format(title=title, ..., transcript=transcript)
WholePrompt(transcript) ==
    [kind |-> "summarization", part |-> 0, parts |-> 0, transcript |-> transcript]

\* SUMMARIZATION_PROMPT.format(title=f"{title} (Teil {i + 1}/{len(chunks)})",
\* ..., transcript=chunk)
ChunkPrompt(chunks, k) ==
    [kind |-> "summarization", part |-> k, parts |-> Len(chunks),
     transcript |-> chunks[k]]

\* SYNTHESIS_PROMPT.format(..., chunk_summaries=summaries_text), one
\* "### Teil i" block per summary; the prompt carries no transcript.
SynthesisPrompt(chunk_summaries) ==
    [kind |-> "synthesis", part |-> 0, parts |-> chunk_summaries,
     transcript |-> NULL]

\* The prompt the next _call_gemini_with_retry is given, after `done` calls
\* that returned.
NextPrompt(c, done) ==
    IF ~NeedsSynthesis(c.chunks) THEN WholePrompt(c.transcript)
    ELSE IF done < Len(c.chunks) THEN ChunkPrompt(c.chunks, done + 1)
    ELSE SynthesisPrompt(done)

\* The call that returns is the last one of summarize_video.
LastPrompt(c, done) ==
    IF ~NeedsSynthesis(c.chunks) THEN TRUE ELSE done = Len(c.chunks)

\* summarize_video(transcript, ...) is entered: the chunks are computed.
Summarize_Enter ==
    /\ call.op = "transcript"
    /\ call' = [op |-> "summarize_video", transcript |-> call.transcript,
                chunks |-> summarizer_chunk_transcript(call.transcript),
                prompts |-> <<>>, pc |-> "calling", result |-> NULL]
    /\ UNCHANGED <<channels, videos, digests, digestSeq, queue, pv, scan, dg, launched,
                   redelivered, ret>>

\* _call_gemini_with_retry returns a summary for the prompt: a chunk summary
\* is appended and the loop goes on, the summary of the whole transcript or
\* of the synthesis is returned.
Summarize_CallReturns ==
    /\ call.op = "summarize_video" /\ call.pc = "calling"
    /\ LET done == Len(call.prompts)
           prompt == NextPrompt(call, done)
       IN call' = [call EXCEPT
                     !.prompts = Append(@, [prompt |-> prompt, ok |-> TRUE]),
                     !.pc = IF LastPrompt(call, done) THEN "returned" ELSE @,
                     !.result = IF LastPrompt(call, done) THEN prompt.kind ELSE @]
    /\ UNCHANGED <<channels, videos, digests, digestSeq, queue, pv, scan, dg, launched,
                   redelivered, ret>>

\* _call_gemini_with_retry raises SummarizationError after its retries:
\* nothing catches it in summarize_video.
Summarize_CallRaises ==
    /\ call.op = "summarize_video" /\ call.pc = "calling"
    /\ LET prompt == NextPrompt(call, Len(call.prompts))
       IN call' = [call EXCEPT
                     !.prompts = Append(@, [prompt |-> prompt, ok |-> FALSE]),
                     !.pc = "raised"]
    /\ UNCHANGED <<channels, videos, digests, digestSeq, queue, pv, scan, dg, launched,
                   redelivered, ret>>

NextSummarize ==
    \/ Summarize_Enter
    \/ Summarize_CallReturns
    \/ Summarize_CallRaises

SpecSummarize == InitChunking /\ [][NextSummarize]_vars

\* ------------------------------------------- chunking, one pass at a time

MaxLoopChars == 17     \* characters of a transcript handed to the loop
MaxIterations == 18    \* passes of the loop that are followed

\* The max_length values chunk_transcript is called with; every overlap of
\* 0..max_length - 1 goes with each.
LoopLengths == {3, 11, 16}

\* How a slice of a string of n characters reads the index i: a negative index
\* counts from the end, and an index beyond either end is the end.
SliceIndex(i, n) ==
    IF i < 0 THEN (IF i + n < 0 THEN 0 ELSE i + n)
    ELSE IF i > n THEN n ELSE i

\* transcript[start:end], for indices of either sign.
SliceOf(t, start, end) ==
    SubSeq(t, SliceIndex(start, Len(t)) + 1, SliceIndex(end, Len(t)))

\* transcript.rfind(". ", start, end), for indices of either sign.
rfindOf(t, start, end) ==
    LET found == {i \in SliceIndex(start, Len(t))..(SliceIndex(end, Len(t)) - 2) :
                    t[i + 1] = "." /\ t[i + 2] = " "}
    IN IF found = {} THEN -1
       ELSE CHOOSE i \in found : \A j \in found : j <= i

\* One pass of the while loop, from a start of either sign: where the chunk
\* ends.
PassEnd(t, start, size) ==
    LET end == start + size
        search_start == start + FourFifths(size)
        sentence_end == rfindOf(t, search_start, end)
    IN IF end < Len(t) /\ sentence_end > search_start
       THEN sentence_end + 1 ELSE end

\* The chunker is entered: a short transcript is returned whole, a longer one
\* starts the loop at 0.
ChunkLoop_EnterWith(threshold, size, overlap) ==
    /\ call.op = "transcript"
    /\ call' = IF Len(call.transcript) <= threshold
               THEN [op |-> "chunks", transcript |-> call.transcript,
                     size |-> size, overlap |-> overlap, start |-> 0,
                     chunks |-> <<call.transcript>>]
               ELSE [op |-> "chunk_loop", transcript |-> call.transcript,
                     size |-> size, overlap |-> overlap, start |-> 0,
                     chunks |-> <<>>]
    /\ UNCHANGED <<channels, videos, digests, digestSeq, queue, pv, scan, dg, launched,
                   redelivered, ret>>

\* TranscriptService.chunk_transcript(transcript, max_length, overlap)
ChunkLoop_Enter(max_length, overlap) ==
    ChunkLoop_EnterWith(max_length, max_length, overlap)

\* SummarizationService._chunk_transcript(transcript)
ChunkLoop_EnterSummarizer ==
    ChunkLoop_EnterWith(MAX_TRANSCRIPT_CHARS, CHUNK_SIZE, CHUNK_OVERLAP)

\* while start < len(transcript): one pass.
ChunkLoop_Pass ==
    /\ call.op = "chunk_loop"
    /\ call.start < Len(call.transcript)
    /\ Len(call.chunks) < MaxIterations
    /\ LET end == PassEnd(call.transcript, call.start, call.size)
       IN call' = [call EXCEPT
                     !.chunks = Append(@, strip(SliceOf(call.transcript, call.start, end))),
                     !.start = end - call.overlap]
    /\ UNCHANGED <<channels, videos, digests, digestSeq, queue, pv, scan, dg, launched,
                   redelivered, ret>>

\* The loop condition fails: return chunks.
ChunkLoop_Return ==
    /\ call.op = "chunk_loop"
    /\ ~(call.start < Len(call.transcript))
    /\ call' = [call EXCEPT !.op = "chunks"]
    /\ UNCHANGED <<channels, videos, digests, digestSeq, queue, pv, scan, dg, launched,
                   redelivered, ret>>

InitChunkLoop ==
    /\ channels = <<>>
    /\ videos = <<>>
    /\ digests = <<>>
    /\ digestSeq = 0
    /\ queue = EmptyBag
    /\ pv = EmptyBag
    /\ scan = ScanIdle
    /\ dg = EmptyBag
    /\ launched = 0
    /\ redelivered = 0
    /\ ret = NoReturn
    /\ call \in {[op |-> "transcript", transcript |-> t] : t \in Transcripts(MaxLoopChars, MaxMarks)}

NextChunkLoop ==
    \/ \E max_length \in LoopLengths : \E overlap \in 0..(max_length - 1) :
          ChunkLoop_Enter(max_length, overlap)
    \/ ChunkLoop_EnterSummarizer
    \/ ChunkLoop_Pass
    \/ ChunkLoop_Return

SpecChunkLoop == InitChunkLoop /\ [][NextChunkLoop]_vars

\* ------------------------------------------------- transcript resolver

\* What the Supadata request can give: 200 with "text", 200 with "content",
\* 200 with neither, 404, 429, another error status (raise_for_status), a
\* request error, a body that is not JSON.
SupadataResponses ==
    {"text", "content", "empty", "404", "429", "HTTPStatusError", "RequestError",
     "Exception"}

\* TranscriptService.get_transcript_supadata
get_transcript_supadata(api_key, response) ==
    IF ~api_key THEN NULL
    ELSE IF response \in {"text", "content"} THEN "supadata"
    ELSE IF response \in {"429", "HTTPStatusError", "RequestError"}
         THEN "SupadataError"
    ELSE NULL

\* get_transcript(video_id, use_fallback) on given answers of the two sources.
Resolve_GetTranscript ==
    /\ call.op = "resolve"
    /\ call' = [op |-> "resolved", youtube |-> call.youtube,
                api_key |-> call.api_key, response |-> call.response,
                use_fallback |-> call.use_fallback,
                outcome |-> get_transcript(1, 0, call.youtube,
                               get_transcript_supadata(call.api_key, call.response),
                               call.use_fallback)]
    /\ UNCHANGED <<channels, videos, digests, digestSeq, queue, pv, scan, dg, launched,
                   redelivered, ret>>

InitResolver ==
    /\ channels = <<>>
    /\ videos = <<>>
    /\ digests = <<>>
    /\ digestSeq = 0
    /\ queue = EmptyBag
    /\ pv = EmptyBag
    /\ scan = ScanIdle
    /\ dg = EmptyBag
    /\ launched = 0
    /\ redelivered = 0
    /\ ret = NoReturn
    /\ call \in [op : {"resolve"}, youtube : YouTubeOutcomes, api_key : BOOLEAN,
                 response : SupadataResponses, use_fallback : BOOLEAN]

NextResolver == Resolve_GetTranscript

SpecResolver == InitResolver /\ [][NextResolver]_vars

\* ---------------------------------------------------------- properties

Sent(d) == d \in DOMAIN digests /\ digests[d].email_status = "sent"
IsMarked(v) == videos[v].included_in_digest_id # NoDigest

\* C1: a process_video message delivered for a video whose row is completed
\* ends at once with the result "skipped": no execution starts (no transcript
\* fetch, no summarizer call) and no row changes.
C1_CompletedIsSkipped ==
    [][\A m \in BagToSet(queue) :
          ( /\ m.task = "process_video"
            /\ CopiesIn(m, queue') < CopiesIn(m, queue)
            /\ m.video_id \in Known
            /\ videos[m.video_id].processing_status = "completed" )
          => /\ ret' = Returned("process_video", "skipped")
             /\ videos' = videos
             /\ pv' = pv]_vars

\* A second delivery has met a completed video and has been skipped.
C1_Witness ==
    /\ ret = Returned("process_video", "skipped")
    /\ \E v \in Known : videos[v].processing_status = "completed"
    /\ redelivered > 0

\* C2: a back-reference that is set stays set, and the list a digest run
\* builds from its query holds no video that has a back-reference when the
\* query runs.
C2_DigestExclusive ==
    [][ /\ \A v \in Known : IsMarked(v) =>
              videos'[v].included_in_digest_id # NoDigest
        /\ \A e \in BagToSet(dg') :
              (e.pc = "sending" /\ CopiesIn(e, dg') > CopiesIn(e, dg))
              => \A v \in Range(e.list) : ~IsMarked(v) ]_vars

\* A digest run has built its list after the digest that marked v was sent, and
\* v is not in it.
C2_Witness ==
    \E v \in Known, e \in BagToSet(dg) :
        /\ IsMarked(v)
        /\ e.pc = "sending"
        /\ e.digest_id > videos[v].included_in_digest_id
        /\ v \notin Range(e.list)

\* C3: no video is in the email of two sent digests, whatever the overlap of
\* the digest runs.
C3_OneDigestPerVideo ==
    \A d1, d2 \in DOMAIN digests :
        (d1 # d2 /\ Sent(d1) /\ Sent(d2))
        => digests[d1].rendered \cap digests[d2].rendered = {}

\* C4: in every committed state a back-reference names a digest row that is
\* "sent", and every video in the email of a "sent" row has a back-reference.
C4_MarkedWithSent ==
    /\ \A v \in Known : IsMarked(v) => Sent(videos[v].included_in_digest_id)
    /\ \A d \in DOMAIN digests :
          Sent(d) => \A v \in digests[d].rendered : IsMarked(v)

\* A digest has been sent and its video carries the back-reference to it.
C4_Witness ==
    \E v \in Known :
        /\ Sent(videos[v].included_in_digest_id)
        /\ v \in digests[videos[v].included_in_digest_id].rendered

\* C5: when the send fails, the digest row is committed "failed" with the
\* error, no row of processed_videos changes, and every video eligible before
\* the step is eligible after it.
C5_FailedSendKeepsVideos ==
    [][\A e \in BagToSet(dg) :
          ( /\ e.pc = "sending"
            /\ CopiesIn(e, dg') < CopiesIn(e, dg)
            /\ ret'.status \in {"retry", "failure"} )
          => /\ e.digest_id \in DOMAIN digests'
             /\ digests'[e.digest_id].email_status = "failed"
             /\ digests'[e.digest_id].email_error # NULL
             /\ videos' = videos
             /\ Eligible \subseteq Eligible']_vars

\* A failed digest row exists and a video of its email is still eligible.
C5_Witness ==
    \E d \in DOMAIN digests :
        /\ digests[d].email_status = "failed"
        /\ digests[d].email_error # NULL
        /\ digests[d].rendered \cap Eligible # {}

\* C6: a digest run whose query finds no eligible video returns "skipped" with
\* video_count 0: no digest row, no id taken, nothing raised to the scheduler
\* (no retry message), no row changed.
C6_EmptyIsSkipped ==
    [][\A e \in BagToSet(dg) :
          ( /\ e.pc = "process" /\ e.todo = <<>>
            /\ Eligible = {}
            /\ CopiesIn(e, dg') < CopiesIn(e, dg) )
          => /\ ret' = DigestReturned("skipped", 0)
             /\ digests' = digests
             /\ digestSeq' = digestSeq
             /\ queue' = queue
             /\ videos' = videos
             /\ BagCardinality(dg') < BagCardinality(dg)]_vars

\* A run has been skipped after another run marked a video.
C6_Witness ==
    /\ ret = DigestReturned("skipped", 0)
    /\ \E v \in Known : IsMarked(v)

\* C7: the step that ends a check_for_new_videos pass puts a digest task on
\* the queue exactly when the number of eligible videos is at least
\* digest_video_threshold.
C7_ThresholdEnqueue ==
    [][(scan.pc = "committed" /\ scan'.pc = "idle")
       => IF Cardinality(Eligible) >= digest_video_threshold
          THEN queue' = Enqueue(queue, DigestMsg("scheduled", 0))
          ELSE queue' = queue]_vars

\* A pass has ended with exactly digest_video_threshold eligible videos and the
\* digest task is on the queue.
C7_Witness ==
    /\ ret = Returned("check_for_new_videos", "completed")
    /\ Cardinality(Eligible) = digest_video_threshold
    /\ BagIn(DigestMsg("scheduled", 0), queue)
    /\ launched = 1

\* C8: a completed video has a transcript source, a category of the closed
\* set and a summary with a non-empty core_message.
C8_CompletedHasCoreMessage ==
    \A v \in Known :
        videos[v].processing_status = "completed"
        => /\ videos[v].transcript_source # NULL
           /\ videos[v].category \in Categories
           /\ HasItem(videos[v])

\* The failure step of a process_video execution e, of an inline iteration e.
PV_Failing(e) ==
    /\ CopiesIn(e, pv') < CopiesIn(e, pv)
    /\ BagCardinality(pv') < BagCardinality(pv)
    /\ ret' # Returned("process_video", "completed")
DG_Failing(e) ==
    /\ e.pc = "fetch"
    /\ CopiesIn(e, dg') < CopiesIn(e, dg)
    /\ videos'[Head(e.todo)].processing_status # "completed"

\* The row of v after a failure: failed, with the error, the retry stamp and a
\* retry_count one above the one the session held.
FailureCommitted(v, held) ==
    /\ videos'[v].processing_status = "failed"
    /\ videos'[v].error_message # NULL
    /\ videos'[v].last_retry_at # NULL
    /\ videos'[v].retry_count = held + 1

C10_RetryCountMonotone ==
    [][\A v \in Known : videos'[v].retry_count >= videos[v].retry_count]_vars

\* The rows a scan has created, committed or not.
Registered == Known \cup ScanUncommitted

\* A scan runs its registration loop in this step.
ScanRegisters ==
    \/ scan.pc = "idle" /\ scan'.pc = "registered"
    \/ BagCardinality(dg') > BagCardinality(dg)
    \/ ret' = Returned("sync_channel_metadata", "completed")

\* C11: a scan that fetches a candidate without a row registers it exactly
\* when is_valid_video accepts it.
C11_RegisteredIffValid ==
    [][(call.op = "candidate" /\ call.video.video_id \notin Registered
        /\ ScanRegisters)
       => (call.video.video_id \in Registered' <=> is_valid_video(call.video))]_vars

\* The duration the filter decodes: 0 for a missing or unparseable string.
Decoded(video) ==
    IF video.duration.kind = "iso"
    THEN 60 * video.duration.m + video.duration.s ELSE 0

\* C13: is_valid_video is false exactly when liveStreamingDetails is present,
\* or liveBroadcastContent is live or upcoming, or the decoded duration is
\* below 60 seconds; the result depends on nothing else.
C13_FilterRule ==
    call.op = "is_valid_video"
    => call.result =
          ~( \/ call.video.liveStreamingDetails # "absent"
             \/ call.video.liveBroadcastContent \in {"live", "upcoming"}
             \/ Decoded(call.video) < 60 )

\* The filter has accepted a video of exactly 60 seconds.
C13_Witness ==
    /\ call.op = "is_valid_video"
    /\ call.result = TRUE
    /\ Decoded(call.video) = 60

\* C12: whatever raised at one channel, the scan visits every channel, ends
\* with its result (never in a retry of the whole task), and the new video of
\* every channel whose fetch and registration went through has its row.
C12_ChannelIsolation ==
    [][(scan.pc = "channels" /\ ret' # NoReturn)
       => /\ ret'.status \in {"completed", "synced"}
          /\ scan.next > NumChannels
          /\ ret'.channels_checked = Cardinality(scan.ok)
          /\ \A c \in scan.ok : VideoOf(c) \in DOMAIN videos']_vars

\* The n most recently published videos of S.
TopNewest(S, n) ==
    {v \in S : Cardinality({w \in S : PublishedAt(w) > PublishedAt(v)}) < n}

\* C14: the email of a digest holds only videos among the
\* MAX_VIDEOS_PER_DIGEST most recently published of its list; the successful
\* send marks only such videos, and every video of the list beyond the cap
\* keeps its row as it is, so that an eligible one stays eligible.
C14_CapKeepsNewest ==
    [][\A e \in BagToSet(dg) :
          ( /\ e.pc = "sending"
            /\ CopiesIn(e, dg') < CopiesIn(e, dg)
            /\ ret'.status = "sent" )
          => LET top == TopNewest(Range(e.list), MAX_VIDEOS_PER_DIGEST)
             IN /\ e.rendered \subseteq top
                /\ Cardinality(top) <= MAX_VIDEOS_PER_DIGEST
                /\ \A v \in Known :
                      videos'[v].included_in_digest_id # videos[v].included_in_digest_id
                      => v \in top
                /\ \A v \in Range(e.list) \ top :
                      /\ videos'[v] = videos[v]
                      /\ v \in Eligible => v \in Eligible']_vars

\* A digest has been composed from a list longer than the cap.
C14_Witness ==
    \E e \in BagToSet(dg) :
        /\ e.pc = "sending"
        /\ Len(e.list) > MAX_VIDEOS_PER_DIGEST
        /\ Cardinality(e.rendered) = MAX_VIDEOS_PER_DIGEST

\* C15: the statistics of a generated digest (total_duration_seconds and
\* category_counts) are those of the whole list passed to generate, also when
\* the list is longer than the cap and fewer videos are rendered.
C15_StatsOverOriginal ==
    (call.op = "generate" /\ call.result.ok)
    => /\ call.result.total_duration_seconds = TotalDuration(call.videos)
       /\ call.result.category_counts = CategoryCounts(call.videos)

\* The order of the categories in a digest, first to last.
FixedPriorityOrder ==
    <<"Claude Code", "Coding/AI Allgemein", "Brettspiele", "Gesundheit", "Sport",
      "Beziehung/Sexualität", "Beachvolleyball", "Sonstige">>

PlaceOf(c) == CHOOSE i \in 1..Len(FixedPriorityOrder) : FixedPriorityOrder[i] = c

\* C16: for items whose categories are of the closed set, the groups come in
\* the fixed priority order, and the items of a group are non-increasing by
\* publish time.
C16_PriorityOrder ==
    call.op = "group_by_category"
    => LET g == call.result
       IN /\ \A i, j \in 1..Len(g) :
                i < j => PlaceOf(g[i].category) < PlaceOf(g[j].category)
          /\ \A i \in 1..Len(g) : \A a, b \in 1..Len(g[i].videos) :
                a < b => g[i].videos[a].published_at >= g[i].videos[b].published_at

GeminiFailed(i) == call.responses[i] \in GeminiFailures

\* C17: the model call is made once per attempt; after MAX_RETRIES failed
\* attempts, and only then, SummarizationError is raised with retry_later
\* true; the first attempt that succeeds is the last call.
C17_RetryExhaustion ==
    call.op = "_call_gemini_with_retry"
    => LET n == Len(call.responses)
       IN /\ n <= GEMINI_MAX_RETRIES
          /\ \A i \in 1..(n - 1) : GeminiFailed(i)
          /\ call.pc = "raised"
                <=> (n = GEMINI_MAX_RETRIES /\ \A i \in 1..n : GeminiFailed(i))
          /\ call.pc = "raised" <=> call.retry_later
          /\ call.pc = "returned" <=> (n > 0 /\ ~GeminiFailed(n))
          /\ call.pc = "calling" => n = call.attempt

C17_Witness ==
    /\ call.op = "_call_gemini_with_retry"
    /\ call.pc = "raised"
    /\ Len(call.responses) = GEMINI_MAX_RETRIES
    /\ call.retry_later

\* C18: a response whose category is outside the closed set ends the call:
\* no model call follows it.
C18_InvalidCategoryNotRetried ==
    call.op = "_call_gemini_with_retry"
    => \A i \in 1..Len(call.responses) :
          call.responses[i] = "invalid_category" => i = Len(call.responses)

\* C19: when get_transcript raises TranscriptNotAvailable for a process_video
\* execution, the execution ends with the result "skipped" and no retry
\* message is put on the queue.
C19_NoTranscriptIsSkip ==
    [][\A e \in BagToSet(pv) :
          ( /\ AwaitsTranscript(e)
            /\ call.raised = "TranscriptNotAvailable"
            /\ CopiesIn(e, pv') < CopiesIn(e, pv) )
          => /\ ret' = Returned("process_video", "skipped")
             /\ queue' = queue]_vars

TransportOnly ==
    \A i \in 1..Len(call.outcomes) :
        call.outcomes[i] \in SmtpTransportErrors \cup {"sent"}
TransportFailures ==
    Cardinality({i \in 1..Len(call.outcomes) : call.outcomes[i] \in SmtpTransportErrors})

\* C20: with only transport errors, send_digest makes at most 3 SMTP attempts,
\* sleeps 2 s after the first failed attempt and 5 s after the second and
\* nothing after the third, makes no attempt after a successful one, reports
\* the number of attempts made, and reports success = false after 3 failures.
C20_TransportRetry ==
    (call.op = "send_digest" /\ call.pc # "validate" /\ Len(call.outcomes) > 0
       /\ TransportOnly)
    => LET n == Len(call.outcomes)
           f == TransportFailures
       IN /\ n <= 3
          /\ \A i \in 1..(n - 1) : call.outcomes[i] # "sent"
          /\ call.slept = SubSeq(<<2, 5>>, 1, IF f < 2 THEN f ELSE 2)
          /\ call.pc = "done" <=> (call.outcomes[n] = "sent" \/ f = 3)
          /\ call.pc = "done"
                => /\ call.result.attempts = n
                   /\ call.result.success <=> call.outcomes[n] = "sent"
          /\ f = 3 => (call.pc = "done" /\ ~call.result.success)

C20_Witness ==
    /\ call.op = "send_digest"
    /\ call.pc = "done"
    /\ Len(call.outcomes) = 3
    /\ TransportFailures = 3
    /\ call.slept = <<2, 5>>
    /\ ~call.result.success

\* C21: an attempt that ends in SMTPAuthenticationError or
\* SMTPRecipientsRefused is the last one: send_digest is done with
\* success = false, the attempts made are reported, and nothing was slept
\* after that attempt.
C21_RefusalNotRetried ==
    call.op = "send_digest"
    => \A i \in 1..Len(call.outcomes) :
          call.outcomes[i] \in SmtpRefusals
          => /\ i = Len(call.outcomes)
             /\ call.pc = "done"
             /\ ~call.result.success
             /\ call.result.attempts = i
             /\ Len(call.slept) = i - 1

C21_Witness ==
    /\ call.op = "send_digest"
    /\ call.pc = "done"
    /\ Len(call.outcomes) = 2
    /\ call.outcomes[1] \in SmtpTransportErrors
    /\ call.outcomes[2] \in SmtpRefusals

\* C22: once send_digest has validated, a subject of more than 998 characters
\* or a payload of more than 10 MB has ended the call with success = false
\* and without any SMTP attempt or sleep; with credentials configured, a
\* subject of at most 998 characters and a payload of at most 10 MB have
\* passed on to the SMTP attempts.
C22_ValidationBeforeSend ==
    (call.op = "send_digest" /\ call.pc # "validate")
    => LET invalid == \/ call.subject_length > 998
                      \/ call.total_size > 10 * 1024 * 1024
       IN /\ invalid => /\ call.pc = "done"
                        /\ ~call.result.success
                        /\ call.outcomes = <<>>
                        /\ call.slept = <<>>
          /\ (~invalid /\ call.credentials)
                => (call.pc = "sending" \/ Len(call.outcomes) > 0)

C22_Witness ==
    /\ call.op = "send_digest"
    /\ call.credentials
    /\ call.subject_length = 999
    /\ call.total_size = 10 * 1024 * 1024
    /\ call.pc = "done"
    /\ call.outcomes = <<>>

\* C23: a transcript of at most the threshold's length, the empty one and one
\* of exactly that length included, comes back as the single chunk equal to
\* it; a transcript one character longer comes back as more than one chunk.
C23_ShortIsOneChunk ==
    call.op = "chunked"
    => /\ Len(call.transcript) <= call.threshold
             => call.result = <<call.transcript>>
       /\ Len(call.transcript) = call.threshold + 1 => Len(call.result) > 1

C23_Witness ==
    /\ call.op = "chunked"
    /\ Len(call.transcript) = call.threshold
    /\ call.transcript[1] = " "
    /\ call.result = <<call.transcript>>

\* The chunks put together again: the first chunk, then each later chunk
\* without its first overlap characters.
RECURSIVE Rejoined(_, _)
Rejoined(chunks, overlap) ==
    IF Len(chunks) <= 1 THEN (IF chunks = <<>> THEN <<>> ELSE chunks[1])
    ELSE LET n == Len(chunks)
         IN Rejoined(SubSeq(chunks, 1, n - 1), overlap)
            \o SubSeq(chunks[n], overlap + 1, Len(chunks[n]))

\* The last overlap characters of chunk a are the first ones of chunk b.
OverlapsBy(a, b, overlap) ==
    /\ Len(a) >= overlap /\ Len(b) >= overlap
    /\ SubSeq(a, Len(a) - overlap + 1, Len(a)) = SubSeq(b, 1, overlap)

\* C24: the chunks of a transcript longer than the threshold begin with its
\* first character and end with its last one, each later chunk begins with
\* the last overlap characters of the chunk before it, and the chunks
\* rejoined without the overlaps are the transcript.
C24_ChunksCover ==
    (call.op = "chunked" /\ Len(call.transcript) > call.threshold)
    => LET t == call.transcript
           chunks == call.result
           n == Len(chunks)
       IN /\ n >= 1
          /\ Len(chunks[1]) >= 1 /\ chunks[1] = SubSeq(t, 1, Len(chunks[1]))
          /\ Len(chunks[n]) >= 1
          /\ chunks[n] = SubSeq(t, Len(t) - Len(chunks[n]) + 1, Len(t))
          /\ \A k \in 1..(n - 1) : OverlapsBy(chunks[k], chunks[k + 1], call.overlap)
          /\ Rejoined(chunks, call.overlap) = t

C26_ThresholdReasonStored ==
    \A d \in DOMAIN digests : digests[d].trigger_reason = "threshold"

\* The step of a scan that calls get_channel_videos for channel c.
FetchesChannel(c) ==
    /\ ChanScan_AtChannel
    /\ scan.next = c
    /\ scan'.pc = "channels" /\ scan'.next = c + 1

\* C27: a channel whose row has is_active false receives no video fetch, and
\* no row of one of its videos is added to the session or committed.
C27_InactiveNotScanned ==
    [][\A c \in DOMAIN channels :
          ~channels[c].is_active
          => /\ ~FetchesChannel(c)
             /\ scan'.pc = "channels" => VideoOf(c) \notin scan'.new
             /\ VideoOf(c) \in DOMAIN videos' => VideoOf(c) \in DOMAIN videos]_vars

\* processing_status of the committed row of v, NULL while it has none.
CommittedStatus(v) ==
    IF v \in Known THEN videos[v].processing_status ELSE NULL

\* C28: a video whose row a scan has committed as pending is processed to the
\* end: its status becomes completed or failed.
C28_PendingTerminates ==
    \A v \in VideoIds :
        (CommittedStatus(v) = "pending")
        ~> (CommittedStatus(v) \in {"completed", "failed"})

\* C29: completed is absorbing: no step changes processing_status, category
\* or summary of a row whose committed status is completed, also when a
\* second execution for the same video overlaps the first or follows it.
C29_CompletedAbsorbing ==
    [][\A v \in Known :
          videos[v].processing_status = "completed"
          => /\ videos'[v].processing_status = "completed"
             /\ videos'[v].category = videos[v].category
             /\ videos'[v].summary = videos[v].summary]_vars

\* The committed changes of processing_status the pipeline is meant to make.
AllowedTransitions ==
    {<<"pending", "processing">>, <<"failed", "processing">>,
     <<"processing", "completed">>, <<"processing", "failed">>}

\* C30: processing_status is always pending, processing, completed or failed;
\* a row is created as pending; every committed change of the status is
\* pending -> processing, failed -> processing, processing -> completed or
\* processing -> failed, so that completed and failed are reached only from
\* a committed processing.
C30_StatusTransitions ==
    [][\A v \in DOMAIN videos' :
          /\ videos'[v].processing_status
                \in {"pending", "processing", "completed", "failed"}
          /\ v \notin Known => videos'[v].processing_status = "pending"
          /\ (v \in Known
              /\ videos'[v].processing_status # videos[v].processing_status)
             => <<videos[v].processing_status, videos'[v].processing_status>>
                   \in AllowedTransitions]_vars

\* The transcript or summarizer call of an execution for video v is under
\* way: a process_video execution, or the inline loop at v.
InExternalCalls(v) ==
    \/ \E e \in BagToSet(pv) : e.video_id = v
    \/ \E e \in BagToSet(dg) : e.pc = "fetch" /\ Head(e.todo) = v

NeverPendingInExternalCalls ==
    \A v \in VideoIds : InExternalCalls(v) => CommittedStatus(v) # "pending"

\* C32: a process_video message is in the queue only when the row of its
\* video is committed, and no process_video execution returns the error
\* result of a missing row.
C32_EnqueuedAfterCommit ==
    /\ \A m \in BagToSet(queue) :
          m.task = "process_video" => m.video_id \in Known
    /\ ~(ret.task = "process_video" /\ ret.status = "error")

\* C33: the commit of a successful send leaves the back-reference of the new
\* DigestHistory row on exactly the videos rendered in its email, and the
\* row's video_count is their number.
C33_MarkedAreRendered ==
    [][\A d \in DOMAIN digests' \ DOMAIN digests :
          digests'[d].email_status = "sent"
          => /\ {v \in Known : videos'[v].included_in_digest_id = d}
                   = digests'[d].rendered
             /\ digests'[d].video_count
                   = Cardinality({v \in Known : videos'[v].included_in_digest_id = d})]_vars

\* C34: the DigestHistory rows are no more than the digest tasks triggered
\* (by beat, by the dashboard or by the threshold): the retries of a failed
\* send add no row.
C34_OneRecordPerTrigger == Cardinality(DOMAIN digests) <= launched

\* A step of one of the three scans: check_for_new_videos moves on, the
\* inline sync of a digest task ends, or sync_channel_metadata returns.
ScanStep ==
    \/ scan' # scan
    \/ ret'.task = "sync_channel_metadata"
    \/ /\ BagCardinality(dg') > BagCardinality(dg)
       /\ \E e \in BagToSet(dg') : e.pc = "process"

\* C35: a scan leaves every row that exists as it is (status, summary,
\* category, retry_count, error_message and back-reference) and adds rows
\* for unknown ids only.
C35_ScanKeepsKnownRows ==
    [][ScanStep => \A v \in Known : v \in DOMAIN videos' /\ videos'[v] = videos[v]]_vars

\* sync_channel_metadata has just run over a table in which every video has
\* its row and one of them is completed.
C35_Witness ==
    /\ ret.task = "sync_channel_metadata"
    /\ Known = VideoIds
    /\ \E v \in Known : videos[v].processing_status = "completed"

\* C36: summarize_video on one chunk issues one summarization prompt on the
\* transcript and no synthesis prompt; on n > 1 chunks it issues the prompts
\* of chunks 1..n in order, framed as part k of n, then, only when all n
\* returned, one synthesis prompt whose result it returns; a call that
\* raises is the last one, and the error leaves summarize_video.
C36_PromptSequence ==
    call.op = "summarize_video" =>
        LET n == Len(call.chunks)
            P == call.prompts
        IN /\ \A i \in 1..Len(P) : ~P[i].ok => (i = Len(P) /\ call.pc = "raised")
           /\ call.pc = "raised" => (P # <<>> /\ ~P[Len(P)].ok)
           /\ n = 1 =>
                /\ Len(P) <= 1
                /\ \A i \in 1..Len(P) : P[i].prompt = WholePrompt(call.transcript)
                /\ call.pc = "returned"
                      => (Len(P) = 1 /\ call.result = "summarization")
           /\ n > 1 =>
                /\ Len(P) <= n + 1
                /\ \A i \in 1..Len(P) :
                      IF i <= n
                      THEN /\ P[i].prompt.kind = "summarization"
                           /\ P[i].prompt.part = i /\ P[i].prompt.parts = n
                           /\ P[i].prompt.transcript = call.chunks[i]
                      ELSE /\ P[i].prompt.kind = "synthesis"
                           /\ P[i].prompt.parts = n
                           /\ \A j \in 1..n : P[j].ok
                /\ call.pc = "returned"
                      => (Len(P) = n + 1 /\ call.result = "synthesis")

\* A transcript of three chunks has been summarized and synthesized.
C36_Witness ==
    /\ call.op = "summarize_video" /\ call.pc = "returned"
    /\ Len(call.chunks) = 3
    /\ Len(call.prompts) = 4

\* Nothing is queued or running for video v.
NothingLeftFor(v) ==
    /\ \A m \in BagToSet(queue) : m.task = "process_video" => m.video_id # v
    /\ \A e \in BagToSet(pv) : e.video_id # v
    /\ \A e \in BagToSet(dg) : e.pc \in {"process", "fetch"} => v \notin Range(e.todo)

\* C37: process_video is executed with retries 0..3 only (four executions);
\* the message of retry k is held for 60 * 2^(k-1) seconds (60, 120, 240);
\* the failure of the execution with retries = 3 sends no message, and a
\* failed video with nothing queued or running stays failed, with nothing
\* queued for it.
C37_BoundedRetries ==
    [][ /\ \A m \in BagToSet(queue') :
              m.task = "process_video"
              => /\ m.retries <= PV_MAX_RETRIES
                 /\ m.countdown = IF m.retries = 0 THEN 0
                                  ELSE 60 * 2^(m.retries - 1)
        /\ \A e \in BagToSet(pv) :
              /\ e.retries <= PV_MAX_RETRIES
              /\ (e.retries = PV_MAX_RETRIES /\ CopiesIn(e, pv') < CopiesIn(e, pv)
                  /\ videos'[e.video_id].processing_status = "failed")
                 => (queue' = queue /\ ret'.status = "failure")
        /\ \A v \in Known :
              (videos[v].processing_status = "failed" /\ NothingLeftFor(v))
              => /\ videos'[v].processing_status = "failed"
                 /\ videos'[v].retry_count = videos[v].retry_count
                 /\ \A m \in BagToSet(queue') :
                       m.task = "process_video" => m.video_id # v ]_vars

\* A video has failed four times: its last execution was the third retry
\* and nothing is queued for it.
C37_Witness ==
    \E v \in Known :
        /\ videos[v].processing_status = "failed"
        /\ videos[v].retry_count = PV_MAX_RETRIES + 1
        /\ NothingLeftFor(v)
        /\ ret = Returned("process_video", "failure")

\* C38: in the groups of a digest no category missing from CATEGORY_PRIORITY
\* comes before a category the table lists.
C38_UnlistedAfterListed ==
    call.op = "group_by_category"
    => LET g == call.result
       IN \A i, j \in 1..Len(g) :
             (i < j /\ g[j].category \in DOMAIN CATEGORY_PRIORITY)
             => g[i].category \in DOMAIN CATEGORY_PRIORITY

\* C39: every pass of chunk_transcript's loop that is followed by another pass
\* starts that pass strictly after its own start, and never before the
\* transcript's first character, whatever 0 <= overlap < max_length is chosen.
C39_StartAdvances ==
    [][ChunkLoop_Pass /\ call'.start < Len(call.transcript)
         => call'.start > call.start /\ call'.start >= 0]_vars

\* The same passes under the summarizer's constants only.
SummarizerStartAdvances ==
    [][ChunkLoop_Pass /\ call'.start < Len(call.transcript)
         /\ call.size = CHUNK_SIZE /\ call.overlap = CHUNK_OVERLAP
         => call'.start > call.start /\ call'.start >= 0]_vars

\* A call of the loop returns within the passes that are followed.
ChunkLoopReturns ==
    call.op = "chunk_loop" => Len(call.chunks) < MaxIterations

====
